---- MODULE Spec2Model ----
(***************************************************************************)
(* Modal Bass Trainer: the application controller (app.js), the pitch      *)
(* detector's tick (pitch-detector.js), the audio engine (audio.js) and    *)
(* the mode tables (modal-data.js), as a state machine over a millisecond  *)
(* wall clock.                                                             *)
(*                                                                         *)
(* Objects are records: app is the ModalBassTrainer instance, det the      *)
(* BassPitchDetector instance.  Handlers are operators from records to     *)
(* records, so that a handler that calls another (start -> detector.start  *)
(* -> detectPitch -> onPitchDetected -> trackNote) is one atomic action.   *)
(* eng is the ModalAudioEngine instance (audio.js); its transport clock is *)
(* the audio context's currentTime, which runs with the wall clock from    *)
(* the moment init() creates the context.  The fretboard is a collaborator *)
(* whose state these records do not hold.                                  *)
(***************************************************************************)
EXTENDS Integers, Sequences, FiniteSets, TLC

VARIABLES now, app, det, pendingStarts, eng

vars == <<now, app, det, pendingStarts, eng>>

(***************************************************************************)
(* Bounds of the model.                                                    *)
(***************************************************************************)
\* Date.now() when the page has finished loading (any positive instant).
Epoch == 1000
\* The clock is explored up to Epoch + MaxTime milliseconds.
MaxTime == 500
\* The same, in the specification that steps the clock finely.
MaxTimeFine == 120
\* Entries the diagnostic log may hold before further detections are cut off.
MaxLog == 3
\* start() calls that may be awaiting the detector's init() at once.
MaxPendingStarts == 1
\* In SpecStarts this many calls of start() may be suspended in init().
MaxStartsInFlight == 2
\* Counted notes fed to trackNote in the accumulator-only specification.
MaxTrackNotes == 5
\* Largest totalNotes the statistics-only specification enumerates.
MaxStatNotes == 10
\* The engine's clock is explored up to Epoch + MaxAudioTime milliseconds.
MaxAudioTime == 1300
\* The engine is started only within MaxStartTime ms of the page's load.
MaxStartTime == 25
\* A groove is started only while at most MaxTracked notes are tracked.
MaxTracked == 3
\* Beats up to MaxBeat are handed to scheduleNote directly, until MaxProbes
\* notes are tracked.
MaxBeat == 8
MaxProbes == 5
\* Oscillators a scheduler run may get before the context refuses one.
MaxAllocations == 2
\* The detector's ticks on analysed buffers are explored up to Epoch +
\* MaxSignalTime milliseconds.
MaxSignalTime == 200
\* The session of both tick streams is explored up to Epoch + MaxTicksTime
\* milliseconds.
MaxTicksTime == 500

\* Amounts of time that may pass between two handlers (ms): around the
\* note gate (Spec), and around the detection cooldown (SpecCooldown).
DtSet == {100, 300, 400}
DtFine == {40, 50, 60}
\* MIDI numbers the detector may report (bass range, 22..67): D2, B2, D3.
MidiSet == {38, 47, 50}
\* Root names of the root selector that the model explores.
RootSet == {"D"}
\* The notes and roots of the accumulator-only specification (SpecTrack):
\* D2, C#3, D3, E3, B3, C4 over the roots D and A.
TrackMidi == {38, 49, 50, 52, 59, 60}
TrackRoots == {"D", "A"}

(***************************************************************************)
(* JavaScript values.                                                      *)
(***************************************************************************)
\* null (timestamps, MIDI numbers and frequencies are never negative).
Null == -1
\* Infinity, as a time difference.
Infinity == 1000000000
\* NaN, as a percentage in tenths.
NaN == -999

\* JavaScript's % : the remainder takes the sign of the dividend.
JsRem(a, b) == IF a >= 0 THEN a % b ELSE -((-a) % b)

\* Math.max of a set of numbers.
Max(S) == CHOOSE m \in S : \A x \in S : x <= m

\* Number.prototype.toFixed(1) of num/den, in tenths (ties round up);
\* NaN when the quotient is 0/0.  Exact for den < 16, where no quotient
\* falls on a tie that floating point could move.
ToFixed1(num, den) ==
    IF den = 0 THEN NaN ELSE (20 * num + den) \div (2 * den)

(***************************************************************************)
(* modal-data.js                                                           *)
(***************************************************************************)
MODAL_DATA ==
    [modes |->
      [dorian |->
         [name |-> "Dorian",
          intervals |-> <<
            [degree |-> "1",  semitones |-> 0,  color |-> "stable"],
            [degree |-> "2",  semitones |-> 2,  color |-> "neutral"],
            [degree |-> "b3", semitones |-> 3,  color |-> "neutral"],
            [degree |-> "4",  semitones |-> 5,  color |-> "neutral"],
            [degree |-> "5",  semitones |-> 7,  color |-> "stable"],
            [degree |-> "6",  semitones |-> 9,  color |-> "characteristic"],
            [degree |-> "b7", semitones |-> 10, color |-> "characteristic"] >>,
          avoidNotes |-> <<
            [degree |-> "7", semitones |-> 11, color |-> "avoid"] >>],
       phrygian |->
         [name |-> "Phrygian",
          intervals |-> <<
            [degree |-> "1",  semitones |-> 0,  color |-> "stable"],
            [degree |-> "b2", semitones |-> 1,  color |-> "characteristic"],
            [degree |-> "b3", semitones |-> 3,  color |-> "neutral"],
            [degree |-> "4",  semitones |-> 5,  color |-> "neutral"],
            [degree |-> "5",  semitones |-> 7,  color |-> "stable"],
            [degree |-> "b6", semitones |-> 8,  color |-> "characteristic"],
            [degree |-> "b7", semitones |-> 10, color |-> "neutral"] >>,
          avoidNotes |-> <<
            [degree |-> "2", semitones |-> 2, color |-> "avoid"],
            [degree |-> "6", semitones |-> 9, color |-> "avoid"] >>],
       lydian |->
         [name |-> "Lydian",
          intervals |-> <<
            [degree |-> "1",  semitones |-> 0,  color |-> "stable"],
            [degree |-> "2",  semitones |-> 2,  color |-> "neutral"],
            [degree |-> "3",  semitones |-> 4,  color |-> "neutral"],
            [degree |-> "#4", semitones |-> 6,  color |-> "characteristic"],
            [degree |-> "5",  semitones |-> 7,  color |-> "stable"],
            [degree |-> "6",  semitones |-> 9,  color |-> "neutral"],
            [degree |-> "7",  semitones |-> 11, color |-> "characteristic"] >>,
          avoidNotes |-> <<
            [degree |-> "4", semitones |-> 5, color |-> "avoid"] >>],
       mixolydian |->
         [name |-> "Mixolydian",
          intervals |-> <<
            [degree |-> "1",  semitones |-> 0,  color |-> "stable"],
            [degree |-> "2",  semitones |-> 2,  color |-> "neutral"],
            [degree |-> "3",  semitones |-> 4,  color |-> "characteristic"],
            [degree |-> "4",  semitones |-> 5,  color |-> "neutral"],
            [degree |-> "5",  semitones |-> 7,  color |-> "stable"],
            [degree |-> "6",  semitones |-> 9,  color |-> "neutral"],
            [degree |-> "b7", semitones |-> 10, color |-> "characteristic"] >>,
          avoidNotes |-> <<
            [degree |-> "7", semitones |-> 11, color |-> "avoid"] >>]]]

ModeNames == DOMAIN MODAL_DATA.modes

\* Variant: a table that lists its characteristic tones in avoidNotes too.
getModeOverlapping(modeName) ==
    LET mode == MODAL_DATA.modes[modeName]
    IN  [mode EXCEPT !.avoidNotes =
            @ \o SelectSeq(mode.intervals,
                           LAMBDA interval : interval.color = "characteristic")]

getMode(modeName) == MODAL_DATA.modes[modeName]

\* The grooves arrays of the modes.  A chord's duration is kept in half
\* beats (1.5 beats is 3), so that every duration is an integer.
GROOVES ==
    [dorian |-> <<
        [id |-> "dorian_classic",
         chords |-> << [voicing |-> <<0, 3, 7, 10>>, duration |-> 8] >>,
         pattern |-> <<1, 0, 0, 0>>,
         tempo |-> 80, swing |-> FALSE],
        [id |-> "dorian_funk",
         chords |-> << [voicing |-> <<0, 3, 7, 10, 14>>, duration |-> 2] >>,
         pattern |-> <<1, 0, 1, 0, 0, 1, 0, 1>>,
         tempo |-> 100, swing |-> FALSE],
        [id |-> "dorian_float",
         chords |-> << [voicing |-> <<0, 3, 7, 10>>, duration |-> 4],
                       [voicing |-> <<2, 5, 9, 12>>, duration |-> 4] >>,
         pattern |-> <<1, 0, 1, 0>>,
         tempo |-> 75, swing |-> FALSE],
        [id |-> "dorian_sowhat",
         chords |-> << [voicing |-> <<0, 7, 10, 14, 17>>, duration |-> 3] >>,
         pattern |-> <<1, 0, 0, 1, 0, 0>>,
         tempo |-> 135, swing |-> TRUE] >>,
     phrygian |-> <<
        [id |-> "phrygian_meditative",
         chords |-> << [voicing |-> <<0, 3, 7>>, duration |-> 8] >>,
         pattern |-> <<1, 0, 0, 0>>,
         tempo |-> 70, swing |-> FALSE],
        [id |-> "phrygian_flamenco",
         chords |-> << [voicing |-> <<0, 3, 7>>, duration |-> 4],
                       [voicing |-> <<1, 5, 8>>, duration |-> 4] >>,
         pattern |-> <<1, 0, 1, 0>>,
         tempo |-> 95, swing |-> FALSE],
        [id |-> "phrygian_metal",
         chords |-> << [voicing |-> <<0, 7>>, duration |-> 2] >>,
         pattern |-> <<1, 0, 0, 1, 1, 0, 1, 0>>,
         tempo |-> 120, swing |-> FALSE] >>,
     lydian |-> <<
        [id |-> "lydian_floating",
         chords |-> << [voicing |-> <<0, 4, 7, 11>>, duration |-> 8] >>,
         pattern |-> <<1, 0, 0, 0>>,
         tempo |-> 75, swing |-> FALSE],
        [id |-> "lydian_bossa",
         chords |-> << [voicing |-> <<0, 4, 7, 11, 14>>, duration |-> 4] >>,
         pattern |-> <<1, 0, 1, 1, 0, 1, 0, 0>>,
         tempo |-> 110, swing |-> FALSE],
        [id |-> "lydian_twochord",
         chords |-> << [voicing |-> <<0, 4, 7, 11>>, duration |-> 4],
                       [voicing |-> <<2, 6, 9, 13>>, duration |-> 4] >>,
         pattern |-> <<1, 0, 1, 0>>,
         tempo |-> 85, swing |-> FALSE] >>,
     mixolydian |-> <<
        [id |-> "mixo_dominant",
         chords |-> << [voicing |-> <<0, 4, 7, 10>>, duration |-> 8] >>,
         pattern |-> <<1, 0, 0, 0>>,
         tempo |-> 90, swing |-> FALSE],
        [id |-> "mixo_rock",
         chords |-> << [voicing |-> <<0, 4, 7, 10>>, duration |-> 2] >>,
         pattern |-> <<1, 0, 1, 0, 1, 1, 0, 1>>,
         tempo |-> 115, swing |-> FALSE],
        [id |-> "mixo_bVII",
         chords |-> << [voicing |-> <<0, 4, 7, 10>>, duration |-> 4],
                       [voicing |-> <<-2, 2, 5>>, duration |-> 4] >>,
         pattern |-> <<1, 0, 1, 0>>,
         tempo |-> 100, swing |-> FALSE],
        [id |-> "mixo_shuffle",
         chords |-> << [voicing |-> <<0, 4, 7, 10>>, duration |-> 3] >>,
         pattern |-> <<1, 0, 0, 1, 0, 0>>,
         tempo |-> 125, swing |-> TRUE] >>]

\* mode.grooves.find(g => g.id === grooveId)
getGroove(modeName, grooveId) ==
    LET grooves == GROOVES[modeName]
        hits == {k \in DOMAIN grooves : grooves[k].id = grooveId}
    IN  grooves[CHOOSE k \in hits : \A j \in hits : k <= j]

(***************************************************************************)
(* config.js (the documented tuning values; app.js and pitch-detector.js   *)
(* do not import them).                                                    *)
(***************************************************************************)
CONFIG ==
    [pitchDetection |-> [bufferSize |-> 4096,
                         minFrequency |-> 38,
                         maxFrequency |-> 280,
                         threshold |-> -50,
                         confidenceThreshold |-> 78,
                         detectionCooldown |-> 40],
     noteCounting   |-> [timeGateMs |-> 280, enablePitchClassMatching |-> TRUE]]

\* The helpers of config.js, on the object `config` that the file's literal
\* defines: each returns the object or its part as it stands.
getPitchDetectionConfig(config) == config.pitchDetection
getNoteCountingConfig(config) == config.noteCounting
getConfig(config) == config

(***************************************************************************)
(* app.js: ModalBassTrainer                                                *)
(***************************************************************************)
\* The literal of the note gate's time test (timeSinceLastNote >= 400).
GateMs == 400

noteMap ==
    [C |-> 0, Cs |-> 1, D |-> 2, Ds |-> 3, E |-> 4, F |-> 5,
     Fs |-> 6, G |-> 7, Gs |-> 8, A |-> 9, As |-> 10, B |-> 11]

noteNameToMIDI(noteName, octave) == (octave + 1) * 12 + noteMap[noteName]

\* new Array(12).fill(0)
ZeroDistribution == [i \in 0..11 |-> 0]

\* The statistics panel's innerHTML, by what it shows.
PanelInitial == [kind |-> "initial"]
PanelEmpty == [kind |-> "empty"]
PanelNoNotes == [kind |-> "nonotes"]

\* The input meter of the page's markup, before any level was shown.
MeterInitial == [width |-> 0, color |-> "none"]

\* showStatus and showError: the status line's text (named by its first
\* words) and whether it is styled as an error.
showStatus(a, message) == [a EXCEPT !.status = [text |-> message, error |-> FALSE]]
showError(a, message) == [a EXCEPT !.status = [text |-> message, error |-> TRUE]]

\* The session object of the constructor.
InitialSession ==
    [startTime |-> Null,
     toneDistribution |-> ZeroDistribution,
     totalNotes |-> 0,
     characteristicToneCount |-> 0,
     avoidToneCount |-> 0]

resetSessionStats(a, t) ==
    [a EXCEPT !.session = [startTime |-> t,
                           toneDistribution |-> ZeroDistribution,
                           totalNotes |-> 0,
                           characteristicToneCount |-> 0,
                           avoidToneCount |-> 0],
              !.statsPanel = PanelEmpty]

\* Variant: the remainder is taken without lifting the difference first.
intervalFromRootUnlifted(a, midiNote) == JsRem(midiNote - a.currentRootMIDI, 12)

\* (midiNote - this.currentRootMIDI + 120) % 12
intervalFromRoot(a, midiNote) == JsRem(midiNote - a.currentRootMIDI + 120, 12)

\* toneDistribution[i]++ : an index that is no element of the array adds a
\* property and leaves the 12 counters as they are.
Increment(dist, i) ==
    IF i \in DOMAIN dist THEN [dist EXCEPT ![i] = @ + 1] ELSE dist

\* mode.intervals.find(int => int.semitones === i) && color === 'characteristic'
IsCharacteristic(mode, i) ==
    LET hits == {k \in DOMAIN mode.intervals : mode.intervals[k].semitones = i}
    IN  /\ hits # {}
        /\ LET first == CHOOSE k \in hits : \A j \in hits : k <= j
           IN  mode.intervals[first].color = "characteristic"

\* Variant: avoid notes are looked up by colour in the interval list.
IsAvoidByColor(mode, i) ==
    \E k \in DOMAIN mode.intervals :
        mode.intervals[k].semitones = i /\ mode.intervals[k].color = "avoid"

\* mode.avoidNotes && mode.avoidNotes.some(avoid => avoid.semitones === i)
IsAvoid(mode, i) ==
    \E k \in DOMAIN mode.avoidNotes : mode.avoidNotes[k].semitones = i

\* Variant: the histogram is indexed by the note's own pitch class.
trackNoteByPitchClass(a, midiNote) ==
    LET i == JsRem(midiNote, 12)
        mode == getMode(a.currentMode)
        s == a.session
    IN  [a EXCEPT !.session =
           [s EXCEPT !.toneDistribution = Increment(@, i),
                     !.totalNotes = @ + 1,
                     !.characteristicToneCount =
                         IF IsCharacteristic(mode, i) THEN @ + 1 ELSE @,
                     !.avoidToneCount =
                         IF IsAvoid(mode, i) THEN @ + 1 ELSE @]]

trackNote(a, midiNote) ==
    LET i == intervalFromRoot(a, midiNote)
        mode == getMode(a.currentMode)
        s == a.session
    IN  [a EXCEPT !.session =
           [s EXCEPT !.toneDistribution = Increment(@, i),
                     !.totalNotes = @ + 1,
                     !.characteristicToneCount =
                         IF IsCharacteristic(mode, i) THEN @ + 1 ELSE @,
                     !.avoidToneCount =
                         IF IsAvoid(mode, i) THEN @ + 1 ELSE @]]

\* Variant: the percentage is cut to one decimal, not rounded.
PercentTruncated(count, totalNotes) ==
    IF totalNotes = 0 THEN NaN ELSE (1000 * count) \div totalNotes

\* (count / totalNotes * 100).toFixed(1), in tenths of a percent.
Percent(count, totalNotes) == ToFixed1(100 * count, totalNotes)

\* The early return of updateStatsDisplay.
StatsDisplaySkipped(a) == ~a.isPlaying \/ a.session.totalNotes = 0

updateStatsDisplay(a) ==
    IF StatsDisplaySkipped(a) THEN a
    ELSE LET s == a.session
             stableTones == s.toneDistribution[0] + s.toneDistribution[7]
         IN  [a EXCEPT !.statsPanel =
                [kind |-> "stats",
                 totalNotes |-> s.totalNotes,
                 characteristicPct |-> Percent(s.characteristicToneCount, s.totalNotes),
                 stablePct |-> Percent(stableTones, s.totalNotes),
                 avoidPct |-> Percent(s.avoidToneCount, s.totalNotes)]]

\* Math.max(...toneDistribution)
MaxOf(dist) == CHOOSE m \in {dist[i] : i \in DOMAIN dist} :
                   \A i \in DOMAIN dist : dist[i] <= m

\* Variant: the last index of the maximum (lastIndexOf).
LastIndexOfMax(dist) == CHOOSE i \in DOMAIN dist :
                            /\ dist[i] = MaxOf(dist)
                            /\ \A j \in DOMAIN dist : dist[j] = MaxOf(dist) => j <= i

\* toneDistribution.indexOf(Math.max(...toneDistribution))
IndexOfMax(dist) == CHOOSE i \in DOMAIN dist :
                        /\ dist[i] = MaxOf(dist)
                        /\ \A j \in DOMAIN dist : dist[j] = MaxOf(dist) => i <= j

\* Variant: the summary has no early return.
SummaryNeverEmpty(a) == FALSE

\* The early return of showSessionSummary.
SummaryIsEmpty(a) == a.session.totalNotes = 0

showSessionSummary(a, t) ==
    IF SummaryIsEmpty(a) THEN [a EXCEPT !.statsPanel = PanelNoNotes]
    ELSE LET s == a.session
             start == IF s.startTime = Null THEN 0 ELSE s.startTime
             characteristicPct == Percent(s.characteristicToneCount, s.totalNotes)
             avoidPct == Percent(s.avoidToneCount, s.totalNotes)
         IN  [a EXCEPT !.statsPanel =
                [kind |-> "summary",
                 duration |-> ToFixed1(t - start, 60000),
                 totalNotes |-> s.totalNotes,
                 maxInterval |-> IndexOfMax(s.toneDistribution),
                 characteristicPct |-> characteristicPct,
                 avoidPct |-> avoidPct,
                 feedback |-> IF characteristicPct > 300 THEN "strong"
                              ELSE IF characteristicPct < 150 THEN "weak"
                              ELSE "none",
                 avoidWarning |-> avoidPct > 100]]

\* this.lastNoteTime ? (now - this.lastNoteTime) : Infinity
timeSinceLastNote(a, t) ==
    IF a.lastNoteTime # Null /\ a.lastNoteTime # 0 THEN t - a.lastNoteTime
    ELSE Infinity

\* Variant: the gate compares MIDI numbers, not pitch classes.
midiNoteChanged(a, midiNote) ==
    a.lastCountedMIDI = Null \/ midiNote # a.lastCountedMIDI

\* lastPitchClass === null || pitchClass !== lastPitchClass
pitchClassChanged(a, midiNote) ==
    \/ a.lastCountedMIDI = Null
    \/ JsRem(midiNote, 12) # JsRem(a.lastCountedMIDI, 12)

\* Variant: the gate takes either condition.
shouldCountEither(a, midiNote, t) ==
    timeSinceLastNote(a, t) >= GateMs \/ pitchClassChanged(a, midiNote)

\* const shouldCount = timeSinceLastNote >= 400 && pitchClassChanged
shouldCount(a, midiNote, t) ==
    timeSinceLastNote(a, t) >= GateMs /\ pitchClassChanged(a, midiNote)

\* Variant: an entry is marked counted when the pitch class has changed.
logEntryMarksChange(a, midiNote, t) ==
    [time |-> t - (IF a.session.startTime = Null THEN 0 ELSE a.session.startTime),
     midi |-> midiNote,
     pitchClass |-> JsRem(midiNote, 12),
     timeSinceLast |-> timeSinceLastNote(a, t),
     pitchChanged |-> pitchClassChanged(a, midiNote),
     counted |-> pitchClassChanged(a, midiNote)]

logEntry(a, midiNote, t) ==
    [time |-> t - (IF a.session.startTime = Null THEN 0 ELSE a.session.startTime),
     midi |-> midiNote,
     pitchClass |-> JsRem(midiNote, 12),
     timeSinceLast |-> timeSinceLastNote(a, t),
     pitchChanged |-> pitchClassChanged(a, midiNote),
     counted |-> shouldCount(a, midiNote, t)]

\* Variant: the gate's timestamp follows every detection.
onPitchDetectedStampsAll(a, midiNote, t) ==
    LET logged == [a EXCEPT !.debugLog = Append(@, logEntry(a, midiNote, t))]
        gated == IF shouldCount(a, midiNote, t)
                 THEN [trackNote(logged, midiNote) EXCEPT
                         !.lastCountedMIDI = midiNote]
                 ELSE logged
    IN  updateStatsDisplay([gated EXCEPT !.lastNoteTime = t,
                                         !.lastDetectionTime = t])

onPitchDetected(a, midiNote, t) ==
    LET logged == [a EXCEPT !.debugLog = Append(@, logEntry(a, midiNote, t))]
        gated == IF shouldCount(a, midiNote, t)
                 THEN [trackNote(logged, midiNote) EXCEPT
                         !.lastCountedMIDI = midiNote,
                         !.lastNoteTime = t]
                 ELSE logged
    IN  updateStatsDisplay([gated EXCEPT !.lastDetectionTime = t])

\* onLevelUpdate: the input meter's width, in halves of a percent, and its
\* colour.
onLevelUpdate(a, level) ==
    LET scaled == (level + 70) * 3
        normalized == IF scaled < 0 THEN 0 ELSE IF scaled > 200 THEN 200 ELSE scaled
    IN  [a EXCEPT !.inputMeter =
           [width |-> normalized,
            color |-> IF normalized < 60 THEN "red"
                      ELSE IF normalized > 170 THEN "orange"
                      ELSE "green"]]

(***************************************************************************)
(* pitch-detector.js: BassPitchDetector                                    *)
(***************************************************************************)
\* this.threshold (dB), this.confidenceThreshold (hundredths),
\* this.detectionCooldown (ms), as the constructor sets them.
threshold == -50
confidenceThreshold == 85
detectionCooldown == 50

\* What one tick reads from the analyser: the frame's level in dB and the
\* result of autoCorrelate, with the frequency named by the MIDI number
\* frequencyToNote rounds it to (Null when the frequency is -1).
QuietFrame == [level |-> -50, midi |-> Null, confidence |-> 0]
NoPitchFrame == [level |-> -40, midi |-> Null, confidence |-> 0]
UnclearFrame(m) == [level |-> -40, midi |-> m, confidence |-> 85]
ClearFrame(m) == [level |-> -40, midi |-> m, confidence |-> 90]

Frames == {QuietFrame, NoPitchFrame}
              \cup {UnclearFrame(m) : m \in MidiSet}
              \cup {ClearFrame(m) : m \in MidiSet}

\* level > threshold && frequency > 0 && confidence > confidenceThreshold
Qualifies(frame) ==
    /\ frame.level > threshold
    /\ frame.midi # Null
    /\ frame.confidence > confidenceThreshold

\* now - this.lastDetectionTime > this.detectionCooldown
CooldownElapsed(d, t) == t - d.lastDetectionTime > detectionCooldown

\* The browser takes the animation-frame callback off its queue to run it.
animationFrameRuns(d) == [d EXCEPT !.pendingFrames = @ - 1]

\* One run of detectPitch on detector d with application a at time t; its
\* last statement requests the next animation frame.
detectPitch(d, a, frame, t) ==
    IF ~d.isRunning THEN [det |-> d, app |-> a]
    ELSE LET metered == onLevelUpdate(a, frame.level)
         IN  IF Qualifies(frame) /\ CooldownElapsed(d, t)
             THEN [det |-> [d EXCEPT !.lastDetectedNote = frame.midi,
                                     !.lastDetectionTime = t,
                                     !.rafID = TRUE,
                                     !.pendingFrames = @ + 1],
                   app |-> onPitchDetected(metered, frame.midi, t)]
             ELSE [det |-> [d EXCEPT !.rafID = TRUE, !.pendingFrames = @ + 1],
                   app |-> metered]

\* Variant: start() runs detectPitch also when the detector is running.
detectorStartUnguarded(d, a, frame, t) ==
    detectPitch([d EXCEPT !.isRunning = TRUE], a, frame, t)

\* BassPitchDetector.start
detectorStart(d, a, frame, t) ==
    IF d.isRunning THEN [det |-> d, app |-> a]
    ELSE detectPitch([d EXCEPT !.isRunning = TRUE], a, frame, t)

\* Variant: the pending animation frame is not cancelled.
detectorStopKeepsFrame(d) == [d EXCEPT !.isRunning = FALSE]

\* BassPitchDetector.stop
detectorStop(d) ==
    [d EXCEPT !.isRunning = FALSE,
              !.rafID = FALSE,
              !.pendingFrames = IF d.rafID THEN @ - 1 ELSE @]

\* BassPitchDetector.cleanup
detectorCleanup(d) == [detectorStop(d) EXCEPT !.mediaStream = FALSE]

\* BassPitchDetector.init from the moment getUserMedia resolves: the stream
\* is kept in this.mediaStream, over the one held if there is one.
\* openStreams is the browser's side of the detector, followed in SpecStarts
\* (where no stream is ever released): the number of streams handed out.
streamAcquired(d) == [d EXCEPT !.mediaStream = TRUE, !.openStreams = @ + 1]

(***************************************************************************)
(* pitch-detector.js: the estimator.  A buffer of the analyser is kept by  *)
(* what the estimator computes from it: its level (dB) and its correlation *)
(* 1 - mean|buffer[i] - buffer[i + offset]|, in hundredths, which is `top` *)
(* at the offset `peak`, `left` and `right` next to it and `floor` at      *)
(* every other offset.  A JavaScript number that is a quotient is kept as  *)
(* the fraction [num, den]: den = 0 is NaN when num = 0 and an infinity    *)
(* otherwise.                                                              *)
(***************************************************************************)
\* The constructor's detection parameters (sampleRate is the usual rate of
\* the audio context that init() reads it from).
bufferSize == 4096
sampleRate == 44100
minFrequency == 30
maxFrequency == 400

\* 20 * log10(0.01): the level of a buffer whose RMS is the 0.01 of
\* autoCorrelate's first test.
NoiseFloorDb == -40

\* The result { frequency: -1, confidence: 0 }.
NoResult == [frequency |-> [num |-> -1, den |-> 1], confidence |-> 0]

correlationAtOffset(signal, offset) ==
    IF offset = signal.peak THEN signal.top
    ELSE IF offset = signal.peak - 1 THEN signal.left
    ELSE IF offset = signal.peak + 1 THEN signal.right
    ELSE signal.floor

\* offset + (prev - next) / (2 * (prev - 2 * curr + next))
parabolicInterpolation(signal, offset, maxSamples) ==
    IF offset < 1 \/ offset >= maxSamples - 1 THEN [num |-> offset, den |-> 1]
    ELSE LET prev == correlationAtOffset(signal, offset - 1)
             curr == correlationAtOffset(signal, offset)
             next == correlationAtOffset(signal, offset + 1)
             den == 2 * (prev - 2 * curr + next)
         IN  [num |-> offset * den + (prev - next), den |-> den]

\* frequency >= this.minFrequency && frequency <= this.maxFrequency; every
\* comparison with NaN is false.
InBand(frequency) ==
    IF frequency.den > 0
    THEN /\ frequency.num >= minFrequency * frequency.den
         /\ frequency.num <= maxFrequency * frequency.den
    ELSE IF frequency.den < 0
    THEN /\ frequency.num <= minFrequency * frequency.den
         /\ frequency.num >= maxFrequency * frequency.den
    ELSE FALSE

\* The offsets the search loop visits when nothing stops it.
SearchRange(maxSamples) ==
    {offset \in (sampleRate \div maxFrequency)..((sampleRate \div minFrequency) - 1) :
        offset < maxSamples}

\* The search loop: the offsets it has seen with a correlation above 0.9
\* when it ends, which is at the first offset after one of them whose
\* correlation is not above 0.9, or at the end of the range.
GoodOffsets(signal, maxSamples) ==
    LET range == SearchRange(maxSamples)
        good == {offset \in range : correlationAtOffset(signal, offset) > 90}
    IN  IF good = {} THEN {}
        ELSE LET first == CHOOSE g \in good : \A h \in good : g <= h
                 stops == {offset \in range :
                              /\ offset > first
                              /\ ~(correlationAtOffset(signal, offset) > 90)}
             IN  IF stops = {} THEN good
                 ELSE LET stop == CHOOSE b \in stops : \A c \in stops : b <= c
                      IN  {offset \in good : offset < stop}

\* Variant: the refined frequency is returned without the range test.
estimateUnvalidated(signal, bestOffset, bestCorrelation, maxSamples) ==
    IF bestCorrelation > 1 /\ bestOffset # -1
    THEN LET refinedOffset == parabolicInterpolation(signal, bestOffset, maxSamples)
         IN  [frequency |-> [num |-> sampleRate * refinedOffset.den,
                             den |-> refinedOffset.num],
              confidence |-> bestCorrelation]
    ELSE NoResult

\* The end of autoCorrelate, from `if (bestCorrelation > 0.01 && ...)`.
estimate(signal, bestOffset, bestCorrelation, maxSamples) ==
    IF bestCorrelation > 1 /\ bestOffset # -1
    THEN LET refinedOffset == parabolicInterpolation(signal, bestOffset, maxSamples)
             frequency == [num |-> sampleRate * refinedOffset.den,
                           den |-> refinedOffset.num]
         IN  IF InBand(frequency)
             THEN [frequency |-> frequency, confidence |-> bestCorrelation]
             ELSE NoResult
    ELSE NoResult

\* Variant: the estimator has no noise floor.
autoCorrelateNoFloor(signal) ==
    LET maxSamples == bufferSize \div 2
        good == GoodOffsets(signal, maxSamples)
    IN  IF good = {} THEN estimate(signal, -1, 0, maxSamples)
        ELSE LET bestCorrelation ==
                     Max({correlationAtOffset(signal, offset) : offset \in good})
                 bestOffset ==
                     CHOOSE o \in good :
                         /\ correlationAtOffset(signal, o) = bestCorrelation
                         /\ \A h \in good :
                               correlationAtOffset(signal, h) = bestCorrelation
                                   => o <= h
             IN  estimate(signal, bestOffset, bestCorrelation, maxSamples)

\* The best offset is the first one the loop has seen of the highest
\* correlation above 0.9.
autoCorrelate(signal) ==
    LET maxSamples == bufferSize \div 2
        good == GoodOffsets(signal, maxSamples)
    IN  IF signal.level < NoiseFloorDb THEN NoResult
        ELSE IF good = {} THEN estimate(signal, -1, 0, maxSamples)
        ELSE LET bestCorrelation ==
                     Max({correlationAtOffset(signal, offset) : offset \in good})
                 bestOffset ==
                     CHOOSE o \in good :
                         /\ correlationAtOffset(signal, o) = bestCorrelation
                         /\ \A h \in good :
                               correlationAtOffset(signal, h) = bestCorrelation
                                   => o <= h
             IN  estimate(signal, bestOffset, bestCorrelation, maxSamples)

\* 440 * 2^((m - 69.5) / 12) in hundredths of a hertz, rounded up, for the
\* MIDI numbers m = 22 .. 68: the least frequency that
\* Math.round(12 * Math.log2(frequency / 440) + 69) takes to m.
SemitoneFloors ==
    << 2831, 2999, 3178, 3367, 3567, 3779, 4004, 4242,
       4494, 4761, 5044, 5344, 5662, 5998, 6355, 6733,
       7133, 7557, 8007, 8483, 8987, 9521, 10088, 10687,
       11323, 11996, 12709, 13465, 14266, 15114, 16013, 16965,
       17974, 19042, 20175, 21374, 22645, 23992, 25418, 26930,
       28531, 30227, 32025, 33929, 35947, 38084, 40349 >>

\* Variant: the note is numbered in semitones from A4.
frequencyToNoteFromA4(frequency) ==
    LET num == IF frequency.den < 0 THEN -frequency.num ELSE frequency.num
        den == IF frequency.den < 0 THEN -frequency.den ELSE frequency.den
        hundredths == 100 * (num \div den) + (100 * (num % den)) \div den
        reached == {k \in DOMAIN SemitoneFloors : SemitoneFloors[k] <= hundredths}
    IN  21 + Max(reached) - 69

\* frequencyToNote(frequency).midi, for a frequency within the band; the
\* frequency is compared to the hundredth of a hertz.
frequencyToNote(frequency) ==
    LET num == IF frequency.den < 0 THEN -frequency.num ELSE frequency.num
        den == IF frequency.den < 0 THEN -frequency.den ELSE frequency.den
        hundredths == 100 * (num \div den) + (100 * (num % den)) \div den
        reached == {k \in DOMAIN SemitoneFloors : SemitoneFloors[k] <= hundredths}
    IN  21 + Max(reached)

\* frequencyToNote's noteIndex, the index into noteNames: midiRounded % 12.
noteIndex(midiRounded) == JsRem(midiRounded, 12)

\* result.frequency > 0
Positive(frequency) ==
    \/ frequency.num > 0 /\ frequency.den > 0
    \/ frequency.num < 0 /\ frequency.den < 0

\* What detectPitch works with when the analyser holds `signal`.
frameOf(signal) ==
    LET result == autoCorrelate(signal)
    IN  [level |-> signal.level,
         midi |-> IF Positive(result.frequency)
                  THEN frequencyToNote(result.frequency)
                  ELSE Null,
         confidence |-> result.confidence]

(***************************************************************************)
(* audio.js: ModalAudioEngine.  Times are in milliseconds; a frequency is  *)
(* kept on the logarithmic scale, in cents above MIDI note 0.              *)
(***************************************************************************)
\* this.lookahead (ms) and this.scheduleAheadTime (0.1 s).
lookahead == 25
scheduleAheadTime == 100
\* The duration scheduleNote gives every chord (0.5 s).
chordDuration == 500

\* audioContext.currentTime at wall time t: init() creates the context
\* when the page has loaded.
currentTime(t) == t - Epoch

\* 440 * Math.pow(2, (midiNote - 69) / 12), in cents above MIDI note 0.
midiToFreq(midiNote) == 100 * midiNote

\* frequency / 2: an octave down.
HalfFreq(frequency) == frequency - 1200

\* grooveData before the first startGroove (the field does not exist yet).
NoGrooveData ==
    [chords |-> << >>, pattern |-> << >>, swing |-> FALSE, beatsPerMeasure |-> 0]

\* The fields of the constructor; timerID names the pending timeout by the
\* wall time it is due at.  pendingTimeouts is the browser's side of the
\* engine: the number of scheduler timeouts set and neither run nor cleared.
NewEngine ==
    [oscillators |-> << >>,
     scheduledNotes |-> << >>,
     isPlaying |-> FALSE,
     currentBeat |-> 0,
     tempo |-> 90,
     nextNoteTime |-> 0,
     timerID |-> Null,
     pendingTimeouts |-> 0,
     grooveData |-> NoGrooveData]

\* stopAll: the scheduled notes are left to their own clean-up timers.
stopAll(e) ==
    [e EXCEPT !.isPlaying = FALSE,
              !.timerID = Null,
              !.pendingTimeouts = IF e.timerID # Null THEN @ - 1 ELSE @,
              !.oscillators = << >>]

createOscillator(e, frequency, type, volume) ==
    [e EXCEPT !.oscillators =
        Append(@, [frequency |-> frequency, type |-> type, volume |-> volume])]

\* Variant: the voices are added to those already held.
startDroneOverDrone(e, rootPitch, includeFifth) ==
    LET rootFreq == midiToFreq(rootPitch)
        fifthFreq == midiToFreq(rootPitch + 7)
        started == [e EXCEPT !.isPlaying = TRUE, !.timerID = Null,
                             !.pendingTimeouts = 0]
        withRoot == createOscillator(started, rootFreq, "sine", 40)
        withFifth == IF includeFifth
                     THEN createOscillator(withRoot, fifthFreq, "sine", 20)
                     ELSE withRoot
    IN  createOscillator(withFifth, HalfFreq(rootFreq), "sine", 15)

\* Volumes are in hundredths.
startDrone(e, rootPitch, includeFifth) ==
    LET rootFreq == midiToFreq(rootPitch)
        fifthFreq == midiToFreq(rootPitch + 7)
        started == [stopAll(e) EXCEPT !.isPlaying = TRUE]
        withRoot == createOscillator(started, rootFreq, "sine", 40)
        withFifth == IF includeFifth
                     THEN createOscillator(withRoot, fifthFreq, "sine", 20)
                     ELSE withRoot
    IN  createOscillator(withFifth, HalfFreq(rootFreq), "sine", 15)

prepareGrooveData(rootPitch, grooveData) ==
    [chords |-> [k \in DOMAIN grooveData.chords |->
                   [frequencies |->
                       [j \in DOMAIN grooveData.chords[k].voicing |->
                           midiToFreq(rootPitch + grooveData.chords[k].voicing[j])],
                    duration |-> grooveData.chords[k].duration]],
     pattern |-> grooveData.pattern,
     swing |-> grooveData.swing,
     beatsPerMeasure |-> Len(grooveData.pattern)]

\* 60.0 / this.tempo, in ms.
secondsPerBeat(e) == 60000 \div e.tempo

\* Variant: a tempo change rescales the time of the next beat.
setTempoRescaling(e, newTempo) ==
    [e EXCEPT !.tempo = newTempo,
              !.nextNoteTime = (@ * e.tempo) \div newTempo]

setTempo(e, newTempo) == [e EXCEPT !.tempo = newTempo]

\* playNote: the oscillator is started at `time` and stopped at
\* time + duration on the audio clock, and is tracked until its clean-up
\* timeout, (duration + 0.1) * 1000 ms after the call, removes it.
playNote(e, frequency, time, duration, t) ==
    [e EXCEPT !.scheduledNotes =
        Append(@, [frequency |-> frequency,
                   startTime |-> time,
                   stopTime |-> time + duration,
                   cleanupAt |-> t + duration + 100])]

RECURSIVE playChordFrom(_, _, _, _, _, _)
playChordFrom(e, frequencies, k, time, duration, t) ==
    IF k > Len(frequencies) THEN e
    ELSE playChordFrom(playNote(e, frequencies[k], time, duration, t),
                       frequencies, k + 1, time, duration, t)

\* frequencies.forEach(freq => this.playNote(freq, time, duration, ...))
playChord(e, frequencies, time, duration, t) ==
    playChordFrom(e, frequencies, 1, time, duration, t)

\* The loop of getChordForBeat from chord i (counted from 0) with the
\* durations before it summed in totalBeats (half beats).
RECURSIVE chordFrom(_, _, _, _)
chordFrom(chords, beatNumber, i, totalBeats) ==
    IF i >= Len(chords) THEN 0
    ELSE IF 2 * beatNumber < totalBeats + chords[i + 1].duration THEN i
    ELSE chordFrom(chords, beatNumber, i + 1, totalBeats + chords[i + 1].duration)

\* Variant: the chord changes one beat late.
getChordForBeatLate(e, beatNumber) ==
    chordFrom(e.grooveData.chords, beatNumber - 1, 0, 0)

getChordForBeat(e, beatNumber) == chordFrom(e.grooveData.chords, beatNumber, 0, 0)

\* (60.0 / this.tempo) * 0.15 on an odd beat of a swung groove.
\* Variant: a swung beat is delayed by a whole beat.
swingOffsetWholeBeat(e, beatNumber) ==
    IF e.grooveData.swing /\ JsRem(beatNumber, 2) = 1
    THEN secondsPerBeat(e)
    ELSE 0

swingOffset(e, beatNumber) ==
    IF e.grooveData.swing /\ JsRem(beatNumber, 2) = 1
    THEN (secondsPerBeat(e) * 15) \div 100
    ELSE 0

\* Variant: the swing delays the even beats.
scheduleNoteSwingEven(e, beatNumber, time, t) ==
    LET pattern == e.grooveData.pattern
        patternIndex == JsRem(beatNumber, Len(pattern))
    IN  IF pattern[patternIndex + 1] = 1
        THEN LET chord == e.grooveData.chords[getChordForBeat(e, beatNumber) + 1]
                 offset == IF e.grooveData.swing /\ JsRem(beatNumber, 2) = 0
                           THEN (secondsPerBeat(e) * 15) \div 100 ELSE 0
             IN  playChord(e, chord.frequencies, time + offset, chordDuration, t)
        ELSE e

scheduleNote(e, beatNumber, time, t) ==
    LET pattern == e.grooveData.pattern
        patternIndex == JsRem(beatNumber, Len(pattern))
    IN  IF pattern[patternIndex + 1] = 1
        THEN LET chordIndex == getChordForBeat(e, beatNumber)
                 chord == e.grooveData.chords[chordIndex + 1]
             IN  playChord(e, chord.frequencies,
                           time + swingOffset(e, beatNumber), chordDuration, t)
        ELSE e

\* chords.reduce((sum, chord) => sum + chord.duration, 0), in half beats.
RECURSIVE totalBeatsFrom(_, _)
totalBeatsFrom(chords, k) ==
    IF k > Len(chords) THEN 0 ELSE chords[k].duration + totalBeatsFrom(chords, k + 1)

totalBeats(e) == totalBeatsFrom(e.grooveData.chords, 1)

\* Variant: the beat index is advanced by two.
nextNoteSkipsBeat(e) ==
    [e EXCEPT !.nextNoteTime = @ + secondsPerBeat(e),
              !.currentBeat = IF 2 * (@ + 2) >= totalBeats(e) THEN 0 ELSE @ + 2]

\* Variant: the beat index wraps only once it has passed the cycle length.
nextNoteWrapsLate(e) ==
    [e EXCEPT !.nextNoteTime = @ + secondsPerBeat(e),
              !.currentBeat = IF 2 * (@ + 1) > totalBeats(e) THEN 0 ELSE @ + 1]

nextNote(e) ==
    [e EXCEPT !.nextNoteTime = @ + secondsPerBeat(e),
              !.currentBeat = IF 2 * (@ + 1) >= totalBeats(e) THEN 0 ELSE @ + 1]

\* Variant: a beat is scheduled once the clock has reached its time.
RECURSIVE schedulerLoopNoLookahead(_, _)
schedulerLoopNoLookahead(e, t) ==
    IF e.nextNoteTime < currentTime(t)
    THEN schedulerLoopNoLookahead(
             nextNote(scheduleNote(e, e.currentBeat, e.nextNoteTime, t)), t)
    ELSE e

\* The while loop of scheduler.
RECURSIVE schedulerLoop(_, _)
schedulerLoop(e, t) ==
    IF e.nextNoteTime < currentTime(t) + scheduleAheadTime
    THEN schedulerLoop(nextNote(scheduleNote(e, e.currentBeat, e.nextNoteTime, t)), t)
    ELSE e

\* The browser takes the timeout's callback off its queue to run it.
timeoutRuns(e) == [e EXCEPT !.pendingTimeouts = @ - 1]

scheduler(e, t) ==
    LET looped == schedulerLoop(e, t)
    IN  IF looped.isPlaying
        THEN [looped EXCEPT !.timerID = t + lookahead,
                            !.pendingTimeouts = @ + 1]
        ELSE looped

\* A run of the scheduler in which the audio context refuses a voice.  x is
\* the run so far: the engine, the number of oscillators the context will
\* still create (`allocations`), and whether createOscillator() has thrown.
\* playNote creates its oscillator first, so a throw leaves the note
\* untracked; nothing catches the exception on its way out of playChord,
\* scheduleNote and scheduler.
playNoteFallible(x, frequency, time, duration, t) ==
    IF x.thrown THEN x
    ELSE IF x.allocations = 0 THEN [x EXCEPT !.thrown = TRUE]
    ELSE [x EXCEPT !.eng = playNote(@, frequency, time, duration, t),
                   !.allocations = @ - 1]

RECURSIVE playChordFallibleFrom(_, _, _, _, _, _)
playChordFallibleFrom(x, frequencies, k, time, duration, t) ==
    IF k > Len(frequencies) \/ x.thrown THEN x
    ELSE playChordFallibleFrom(
             playNoteFallible(x, frequencies[k], time, duration, t),
             frequencies, k + 1, time, duration, t)

scheduleNoteFallible(x, beatNumber, time, t) ==
    LET e == x.eng
        pattern == e.grooveData.pattern
        patternIndex == JsRem(beatNumber, Len(pattern))
    IN  IF pattern[patternIndex + 1] = 1
        THEN LET chordIndex == getChordForBeat(e, beatNumber)
                 chord == e.grooveData.chords[chordIndex + 1]
             IN  playChordFallibleFrom(x, chord.frequencies, 1,
                                       time + swingOffset(e, beatNumber),
                                       chordDuration, t)
        ELSE x

\* The while loop: nextNote() is reached only when scheduleNote returned.
RECURSIVE schedulerLoopFallible(_, _)
schedulerLoopFallible(x, t) ==
    IF x.thrown \/ ~(x.eng.nextNoteTime < currentTime(t) + scheduleAheadTime)
    THEN x
    ELSE LET scheduled == scheduleNoteFallible(x, x.eng.currentBeat,
                                               x.eng.nextNoteTime, t)
         IN  IF scheduled.thrown THEN scheduled
             ELSE schedulerLoopFallible(
                      [scheduled EXCEPT !.eng = nextNote(@)], t)

\* scheduler() as the timeout's callback: when the exception leaves it, the
\* timeout is not armed again (timerID keeps the id of the timeout that has
\* fired, which names no pending timeout: Null).
schedulerFallible(e, allocations, t) ==
    LET looped == schedulerLoopFallible(
                      [eng |-> e, allocations |-> allocations, thrown |-> FALSE], t)
    IN  IF looped.thrown THEN [looped EXCEPT !.eng.timerID = Null]
        ELSE IF looped.eng.isPlaying
        THEN [looped EXCEPT !.eng.timerID = t + lookahead,
                            !.eng.pendingTimeouts = @ + 1]
        ELSE looped

\* Variant: the groove is started without stopping what is playing.
startGrooveOverDrone(e, rootPitch, grooveData, tempo, t) ==
    scheduler([e EXCEPT !.tempo = tempo,
                        !.isPlaying = TRUE,
                        !.currentBeat = 0,
                        !.nextNoteTime = currentTime(t),
                        !.grooveData = prepareGrooveData(rootPitch, grooveData)],
              t)

startGroove(e, rootPitch, grooveData, tempo, t) ==
    scheduler([stopAll(e) EXCEPT
                  !.tempo = tempo,
                  !.isPlaying = TRUE,
                  !.currentBeat = 0,
                  !.nextNoteTime = currentTime(t),
                  !.grooveData = prepareGrooveData(rootPitch, grooveData)],
              t)

\* The clean-up timeout of the tracked note at position i has fired.
cleanupNote(e, i) ==
    [e EXCEPT !.scheduledNotes =
        SubSeq(@, 1, i - 1) \o SubSeq(@, i + 1, Len(@))]

(***************************************************************************)
(* The state after construction and init().                                *)
(***************************************************************************)
NewDetector ==
    [isRunning |-> FALSE,
     rafID |-> FALSE,
     pendingFrames |-> 0,
     mediaStream |-> FALSE,
     openStreams |-> 0,
     lastDetectedNote |-> Null,
     lastDetectionTime |-> 0]

\* currentGroove is null until a groove is chosen; "" stands for it.
NewApp(mode, root, stopDisabled) ==
    [currentMode |-> mode,
     currentRoot |-> root,
     currentRootMIDI |-> noteNameToMIDI(root, 3),
     practiceType |-> "drone",
     currentGroove |-> "",
     tempo |-> 90,
     isPlaying |-> FALSE,
     session |-> InitialSession,
     lastCountedMIDI |-> Null,
     lastNoteTime |-> Null,
     lastDetectionTime |-> Null,
     debugLog |-> << >>,
     statsPanel |-> PanelInitial,
     inputMeter |-> MeterInitial,
     status |-> [text |-> "Ready", error |-> FALSE],
     startDisabled |-> FALSE,
     stopDisabled |-> stopDisabled,
     controlsDisabled |-> FALSE]

\* The constructor's fields, then init(): updateMode() reads the selectors.
\* The page's markup decides whether the Stop button starts disabled.
Init ==
    /\ now = Epoch
    /\ \E mode \in ModeNames, root \in RootSet, stopDisabled \in BOOLEAN :
           app = NewApp(mode, root, stopDisabled)
    /\ det = NewDetector
    /\ pendingStarts = 0
    /\ eng = NewEngine

(***************************************************************************)
(* Handlers.                                                               *)
(***************************************************************************)
\* Variant: the session record is reset before the detector is started.
startBodyResetFirst(d, a, e, frame, t) ==
    LET r == detectorStart(d, resetSessionStats(a, t), frame, t)
    IN  [det |-> r.det,
         eng |-> IF a.practiceType = "drone"
                 THEN startDrone(e, a.currentRootMIDI, TRUE)
                 ELSE startGroove(e, a.currentRootMIDI,
                                  getGroove(a.currentMode, a.currentGroove),
                                  a.tempo, t),
         app |-> showStatus(
                     [r.app EXCEPT !.isPlaying = TRUE,
                                   !.lastCountedMIDI = Null,
                                   !.lastNoteTime = Null,
                                   !.lastDetectionTime = t,
                                   !.debugLog = << >>,
                                   !.startDisabled = TRUE,
                                   !.stopDisabled = FALSE,
                                   !.controlsDisabled = TRUE],
                     "Playing")]

\* start() from the point where the input stream is available.
\* Variant: start() leaves the gate as the last session left it.
startBodyKeepsGate(d, a, e, frame, t) ==
    LET r == detectorStart(d, a, frame, t)
        reset == resetSessionStats(r.app, t)
    IN  [det |-> r.det,
         eng |-> IF a.practiceType = "drone"
                 THEN startDrone(e, a.currentRootMIDI, TRUE)
                 ELSE startGroove(e, a.currentRootMIDI,
                                  getGroove(a.currentMode, a.currentGroove),
                                  a.tempo, t),
         app |-> showStatus(
                     [reset EXCEPT !.isPlaying = TRUE,
                                   !.lastDetectionTime = t,
                                   !.debugLog = << >>,
                                   !.startDisabled = TRUE,
                                   !.stopDisabled = FALSE,
                                   !.controlsDisabled = TRUE],
                     "Playing")]

startBody(d, a, e, frame, t) ==
    LET r == detectorStart(d, a, frame, t)
        reset == resetSessionStats(r.app, t)
    IN  [det |-> r.det,
         eng |-> IF a.practiceType = "drone"
                 THEN startDrone(e, a.currentRootMIDI, TRUE)
                 ELSE startGroove(e, a.currentRootMIDI,
                                  getGroove(a.currentMode, a.currentGroove),
                                  a.tempo, t),
         app |-> showStatus(
                     [reset EXCEPT !.isPlaying = TRUE,
                                   !.lastCountedMIDI = Null,
                                   !.lastNoteTime = Null,
                                   !.lastDetectionTime = t,
                                   !.debugLog = << >>,
                                   !.startDisabled = TRUE,
                                   !.stopDisabled = FALSE,
                                   !.controlsDisabled = TRUE],
                     "Playing")]

\* ModalBassTrainer.stop
stop(d, a, e, t) ==
    [eng |-> stopAll(e),
     det |-> detectorStop(d),
     app |-> showStatus(
                 showSessionSummary(
                     [a EXCEPT !.isPlaying = FALSE,
                               !.lastCountedMIDI = Null,
                               !.lastNoteTime = Null,
                               !.lastDetectionTime = Null,
                               !.startDisabled = FALSE,
                               !.stopDisabled = TRUE,
                               !.controlsDisabled = FALSE], t),
                 "Stopped")]

\* Time passes while no handler runs.
Pass(dt) ==
    /\ now + dt <= Epoch + MaxTime
    /\ now' = now + dt
    /\ UNCHANGED <<app, det, pendingStarts, eng>>

PassFine(dt) ==
    /\ now + dt <= Epoch + MaxTimeFine
    /\ now' = now + dt
    /\ UNCHANGED <<app, det, pendingStarts, eng>>

\* A click on Start: with no stream yet, start() suspends in init().
StartClick(frame) ==
    /\ ~app.startDisabled
    /\ IF det.mediaStream
       THEN LET r == startBody(det, app, eng, frame, now)
            IN  /\ det' = r.det /\ app' = r.app /\ eng' = r.eng
                /\ UNCHANGED pendingStarts
       ELSE /\ pendingStarts < MaxPendingStarts
            /\ pendingStarts' = pendingStarts + 1
            /\ UNCHANGED <<det, app, eng>>
    /\ UNCHANGED now

\* Variant: start() goes on whatever init() has returned.
InitResolvedUnchecked(ok, frame) ==
    /\ pendingStarts > 0
    /\ pendingStarts' = pendingStarts - 1
    /\ LET r == startBody(det, app, eng, frame, now)
       IN  det' = r.det /\ app' = r.app /\ eng' = r.eng
    /\ UNCHANGED now

\* init() of a suspended start() resolves: with true when getUserMedia has
\* given a stream, and start() runs on; with false when it has thrown, and
\* start() shows the error and returns.
InitResolved(ok, frame) ==
    /\ pendingStarts > 0
    /\ pendingStarts' = pendingStarts - 1
    /\ IF ok
       THEN LET r == startBody([det EXCEPT !.mediaStream = TRUE], app, eng,
                               frame, now)
            IN  det' = r.det /\ app' = r.app /\ eng' = r.eng
       ELSE /\ app' = showError(app, "Failed to access line input")
            /\ UNCHANGED <<det, eng>>
    /\ UNCHANGED now

\* A click on Stop.
StopClick ==
    /\ ~app.stopDisabled
    /\ LET r == stop(det, app, eng, now)
       IN  det' = r.det /\ app' = r.app /\ eng' = r.eng
    /\ UNCHANGED <<now, pendingStarts>>

\* The animation-frame callback of the detector.
DetectTick(frame) ==
    /\ det.pendingFrames > 0
    /\ Len(app.debugLog) < MaxLog
    /\ LET r == detectPitch(animationFrameRuns(det), app, frame, now)
       IN  det' = r.det /\ app' = r.app
    /\ UNCHANGED <<now, pendingStarts, eng>>

\* A change of the mode or root selector: updateMode().
UpdateMode(mode, root) ==
    /\ ~app.controlsDisabled
    /\ app' = [app EXCEPT !.currentMode = mode,
                          !.currentRoot = root,
                          !.currentRootMIDI = noteNameToMIDI(root, 3)]
    /\ UNCHANGED <<now, det, pendingStarts, eng>>

\* reinitializePitchDetector up to its await: the detector is cleaned up
\* and replaced by a new one, whose init() is then awaited.
reinitializePitchDetector(d) == NewDetector

\* The listener of the input device selector: an open stream is released
\* by cleanup(), which also stops the detector, and then isRunning is
\* tested.
inputDeviceChanged(d) ==
    LET released == IF d.mediaStream THEN detectorCleanup(d) ELSE d
    IN  IF released.isRunning THEN reinitializePitchDetector(released)
        ELSE released

\* A change of the input device selector while a stream is open (without
\* one the listener changes nothing).
DeviceChange ==
    /\ ~app.controlsDisabled
    /\ det.mediaStream
    /\ det' = inputDeviceChanged(det)
    /\ UNCHANGED <<now, app, pendingStarts, eng>>

Handlers ==
    \/ \E frame \in Frames : StartClick(frame)
    \/ \E ok \in BOOLEAN, frame \in Frames : InitResolved(ok, frame)
    \/ StopClick
    \/ \E frame \in Frames : DetectTick(frame)
    \/ \E mode \in ModeNames, root \in RootSet : UpdateMode(mode, root)
    \/ DeviceChange

Next ==
    \/ \E dt \in DtSet : Pass(dt)
    \/ Handlers

Spec == Init /\ [][Next]_vars

\* The same machine with the clock stepped around the detection cooldown.
NextCooldown ==
    \/ \E dt \in DtFine : PassFine(dt)
    \/ Handlers

SpecCooldown == Init /\ [][NextCooldown]_vars

(***************************************************************************)
(* SpecDevice: the handlers at one instant, on an audio context that may   *)
(* refuse the drone's first oscillator.                                    *)
(***************************************************************************)
\* startDrone when createOscillator() throws for the root oscillator.
startDroneFailing(e, rootPitch, includeFifth) ==
    [stopAll(e) EXCEPT !.isPlaying = TRUE]

\* A click on Start with the stream open, when the audio start throws:
\* the detector has been started, and the catch of start() shows the error
\* before any of the state or the buttons is updated.
StartClickAudioFails(frame) ==
    /\ ~app.startDisabled
    /\ det.mediaStream
    /\ app.practiceType = "drone"
    /\ LET r == detectorStart(det, app, frame, now)
       IN  /\ det' = r.det
           /\ app' = showError(r.app, "Failed to start")
    /\ eng' = startDroneFailing(eng, app.currentRootMIDI, TRUE)
    /\ UNCHANGED <<now, pendingStarts>>

NextDevice ==
    \/ Handlers
    \/ \E frame \in Frames : StartClickAudioFails(frame)

SpecDevice == Init /\ [][NextDevice]_vars

(***************************************************************************)
(* SpecTrack: one running session that receives a clear detection every    *)
(* GateMs milliseconds, for every mode and the roots of TrackRoots.        *)
(***************************************************************************)
\* The state when the first start() has completed at Epoch.
TrackInit ==
    /\ now = Epoch
    /\ pendingStarts = 0
    /\ \E mode \in ModeNames, root \in TrackRoots :
          LET r == startBody([NewDetector EXCEPT !.mediaStream = TRUE],
                             NewApp(mode, root, TRUE), NewEngine,
                             QuietFrame, Epoch)
          IN  det = r.det /\ app = r.app /\ eng = r.eng

\* GateMs pass, then the tick reads a clear frame of note m.
NoteAfterGate(m) ==
    /\ Len(app.debugLog) < MaxTrackNotes
    /\ now' = now + GateMs
    /\ LET r == detectPitch(animationFrameRuns(det), app, ClearFrame(m), now')
       IN  det' = r.det /\ app' = r.app
    /\ UNCHANGED <<pendingStarts, eng>>

NextTrack == \E m \in TrackMidi : NoteAfterGate(m)

SpecTrack == TrackInit /\ [][NextTrack]_vars

(***************************************************************************)
(* SpecStats: the statistics queries on every session record of up to      *)
(* MaxStatNotes notes on the root, the fifth, a characteristic and an      *)
(* avoid tone of D Dorian; the gate has just counted, so the detection     *)
(* the tick delivers is not counted and only refreshes the display.        *)
(***************************************************************************)
StatsSession(n0, n7, nc, na) ==
    [startTime |-> Epoch,
     toneDistribution |-> [i \in 0..11 |-> IF i = 0 THEN n0
                                           ELSE IF i = 7 THEN n7
                                           ELSE IF i = 9 THEN nc
                                           ELSE IF i = 11 THEN na
                                           ELSE 0],
     totalNotes |-> n0 + n7 + nc + na,
     characteristicToneCount |-> nc,
     avoidToneCount |-> na]

StatsInit ==
    /\ now = Epoch
    /\ pendingStarts = 0
    /\ \E n0, n7, nc, na \in 0..MaxStatNotes :
          /\ n0 + n7 + nc + na <= MaxStatNotes
          /\ LET r == startBody([NewDetector EXCEPT !.mediaStream = TRUE],
                                NewApp("dorian", "D", TRUE), NewEngine,
                                QuietFrame, Epoch)
             IN  /\ det = r.det
                 /\ eng = r.eng
                 /\ app = [r.app EXCEPT !.session = StatsSession(n0, n7, nc, na),
                                        !.lastCountedMIDI = 50,
                                        !.lastNoteTime = Epoch]

NextStats ==
    \/ \E frame \in Frames : DetectTick(frame)
    \/ StopClick

SpecStats == StatsInit /\ [][NextStats]_vars

(***************************************************************************)
(* SpecAudio: the audio engine under a client that calls its methods,      *)
(* with its scheduler timeout and the clean-up timeouts of its notes.      *)
(***************************************************************************)
\* A groove of one chord of two beats whose two pattern slots both sound,
\* swung.
SwungGroove ==
    [id |-> "swung",
     chords |-> << [voicing |-> <<0, 7>>, duration |-> 4] >>,
     pattern |-> <<1, 1>>,
     tempo |-> 100, swing |-> TRUE]

\* The grooves, tempos (BPM) and root handed to the engine.  The tempos
\* divide 60000, so that a beat is a whole number of milliseconds.
AudioGrooves ==
    {getGroove("phrygian", "phrygian_metal"),
     getGroove("phrygian", "phrygian_flamenco"),
     getGroove("dorian", "dorian_sowhat"),
     SwungGroove}
TempoSet == {100, 120}
AudioRoots == {50}

\* Steps of the clock while no scheduler timeout is pending, and the
\* delays with which the scheduler's timeout may fire (ms).
DtAudio == {25, 100}
TickDelays == {0, 75, 100, 500}

AudioInit ==
    /\ now = Epoch
    /\ app = NewApp("dorian", "D", TRUE)
    /\ det = NewDetector
    /\ pendingStarts = 0
    /\ eng = NewEngine

\* No clean-up timeout is due before t: the clean-up timeouts fire on time.
CleanupsDone(t) ==
    \A i \in DOMAIN eng.scheduledNotes : t <= eng.scheduledNotes[i].cleanupAt

\* Time passes while the engine is idle or drones.
PassAudio(dt) ==
    /\ eng.timerID = Null
    /\ now + dt <= Epoch + MaxAudioTime
    /\ CleanupsDone(now + dt)
    /\ now' = now + dt
    /\ UNCHANGED <<app, det, pendingStarts, eng>>

CallStartDrone(rootPitch, includeFifth) ==
    /\ now <= Epoch + MaxStartTime
    /\ eng' = startDrone(eng, rootPitch, includeFifth)
    /\ UNCHANGED <<now, app, det, pendingStarts>>

CallStartGroove(rootPitch, grooveData, tempo) ==
    /\ now <= Epoch + MaxStartTime
    /\ Len(eng.scheduledNotes) <= MaxTracked
    /\ eng' = startGroove(eng, rootPitch, grooveData, tempo, now)
    /\ UNCHANGED <<now, app, det, pendingStarts>>

CallStopAll ==
    /\ eng' = stopAll(eng)
    /\ UNCHANGED <<now, app, det, pendingStarts>>

CallSetTempo(newTempo) ==
    /\ eng' = setTempo(eng, newTempo)
    /\ UNCHANGED <<now, app, det, pendingStarts>>

\* Time passes until the timeout armed by scheduler() fires, `delay` ms
\* after it is due.
SchedulerTick(delay) ==
    /\ eng.pendingTimeouts > 0
    /\ eng.timerID # Null
    /\ eng.timerID + delay >= now
    /\ eng.timerID + delay <= Epoch + MaxAudioTime
    /\ CleanupsDone(eng.timerID + delay)
    /\ now' = eng.timerID + delay
    /\ eng' = scheduler(timeoutRuns(eng), now')
    /\ UNCHANGED <<app, det, pendingStarts>>

\* Time passes until the clean-up timeout of the oldest tracked note fires.
NoteCleanup ==
    /\ eng.scheduledNotes # << >>
    /\ LET due == eng.scheduledNotes[1].cleanupAt
       IN  /\ eng.timerID # Null => due <= eng.timerID + Max(TickDelays)
           /\ now' = IF due > now THEN due ELSE now
           /\ now' <= Epoch + MaxAudioTime
    /\ eng' = cleanupNote(eng, 1)
    /\ UNCHANGED <<app, det, pendingStarts>>

NextAudio ==
    \/ \E dt \in DtAudio : PassAudio(dt)
    \/ \E rootPitch \in AudioRoots, includeFifth \in BOOLEAN :
          CallStartDrone(rootPitch, includeFifth)
    \/ \E rootPitch \in AudioRoots, grooveData \in AudioGrooves, tempo \in TempoSet :
          CallStartGroove(rootPitch, grooveData, tempo)
    \/ CallStopAll
    \/ \E newTempo \in TempoSet : CallSetTempo(newTempo)
    \/ \E delay \in TickDelays : SchedulerTick(delay)
    \/ NoteCleanup

SpecAudio == AudioInit /\ [][NextAudio]_vars

(***************************************************************************)
(* SpecChord: a client calls scheduleNote for beats of its own choosing,   *)
(* also beyond the cycle, on a stopped engine that holds a groove whose    *)
(* chords are told apart by their single voice.                            *)
(***************************************************************************)
\* Lists of chord durations, in half beats: [2,2], [1], [1.5], [4],
\* [1,2,1], [1.5,1.5].
DurationLists == {<<4, 4>>, <<2>>, <<3>>, <<8>>, <<2, 4, 2>>, <<3, 3>>}

\* The groove of these durations: chord k (from 0) voices semitone k and
\* every beat sounds.
ChordGroove(durations) ==
    [id |-> "chords",
     chords |-> [k \in DOMAIN durations |->
                   [voicing |-> <<k - 1>>, duration |-> durations[k]]],
     pattern |-> <<1>>,
     tempo |-> 100, swing |-> FALSE]

\* The engine has started the groove at 100 BPM on root D and was stopped.
ChordInit ==
    /\ now = Epoch
    /\ app = NewApp("dorian", "D", TRUE)
    /\ det = NewDetector
    /\ pendingStarts = 0
    /\ \E durations \in DurationLists :
          eng = stopAll(startGroove(NewEngine, 50, ChordGroove(durations),
                                    100, Epoch))

\* scheduleNote(beatNumber, time) for the beat's nominal time.
CallScheduleNote(beatNumber) ==
    /\ Len(eng.scheduledNotes) < MaxProbes
    /\ eng' = scheduleNote(eng, beatNumber, beatNumber * secondsPerBeat(eng), now)
    /\ UNCHANGED <<now, app, det, pendingStarts>>

NextChord == \E beatNumber \in 0..MaxBeat : CallScheduleNote(beatNumber)

SpecChord == ChordInit /\ [][NextChord]_vars

(***************************************************************************)
(* SpecVoiceFail: the engine of SpecAudio on an audio context that may     *)
(* refuse to create an oscillator during a run of the scheduler.           *)
(***************************************************************************)
\* The timeout fires and the context throws after `allocations` oscillators
\* of this run.
SchedulerTickFailing(delay, allocations) ==
    /\ eng.pendingTimeouts > 0
    /\ eng.timerID # Null
    /\ eng.timerID + delay >= now
    /\ eng.timerID + delay <= Epoch + MaxAudioTime
    /\ CleanupsDone(eng.timerID + delay)
    /\ now' = eng.timerID + delay
    /\ LET x == schedulerFallible(timeoutRuns(eng), allocations, now')
       IN  x.thrown /\ eng' = x.eng
    /\ UNCHANGED <<app, det, pendingStarts>>

NextVoiceFail ==
    \/ NextAudio
    \/ \E delay \in TickDelays, allocations \in 0..MaxAllocations :
          SchedulerTickFailing(delay, allocations)

SpecVoiceFail == AudioInit /\ [][NextVoiceFail]_vars

(***************************************************************************)
(* SpecEstimator: a running session whose detector reads a buffer of its   *)
(* analyser at every tick.                                                 *)
(***************************************************************************)
\* The buffers: levels of an all-zero buffer (20 * log10(1e-10)), at the
\* detection threshold, between it and the noise floor, and at the noise
\* floor; correlation peaks at the ends of the search range, inside it and
\* outside it; peaks that are sharp, skewed, flat-topped, too weak, rising
\* towards shorter offsets, and no peak at all.
SignalLevels == {-200, -50, -45, -40}
SignalPeaks == {50, 110, 111, 600, 1469}
SignalShapes ==
    {[left |-> 80, top |-> 95, right |-> 80, floor |-> 50],
     [left |-> 92, top |-> 95, right |-> 80, floor |-> 50],
     [left |-> 95, top |-> 95, right |-> 95, floor |-> 50],
     [left |-> 50, top |-> 88, right |-> 50, floor |-> 50],
     [left |-> 97, top |-> 95, right |-> 92, floor |-> 50],
     [left |-> 95, top |-> 95, right |-> 95, floor |-> 95]}
Signals ==
    {[level |-> level, peak |-> peak, left |-> shape.left, top |-> shape.top,
      right |-> shape.right, floor |-> shape.floor] :
        level \in SignalLevels, peak \in SignalPeaks, shape \in SignalShapes}

\* Times between two ticks (ms): within the detection cooldown and beyond.
DtTick == {40, 100}

\* start() has completed at Epoch on a silent input.
EstimatorInit ==
    /\ now = Epoch
    /\ pendingStarts = 0
    /\ LET r == startBody([NewDetector EXCEPT !.mediaStream = TRUE],
                          NewApp("dorian", "D", TRUE), NewEngine,
                          QuietFrame, Epoch)
       IN  det = r.det /\ app = r.app /\ eng = r.eng

\* dt ms after the last tick the animation frame fires and detectPitch
\* reads `signal`.
EstimatorTick(signal, dt) ==
    /\ det.pendingFrames > 0
    /\ now + dt <= Epoch + MaxSignalTime
    /\ now' = now + dt
    /\ LET r == detectPitch(animationFrameRuns(det), app, frameOf(signal), now')
       IN  det' = r.det /\ app' = r.app
    /\ UNCHANGED <<pendingStarts, eng>>

NextEstimator == \E signal \in Signals, dt \in DtTick : EstimatorTick(signal, dt)

SpecEstimator == EstimatorInit /\ [][NextEstimator]_vars

(***************************************************************************)
(* SpecTicks: a groove session in which the animation frames of the        *)
(* detector and the timeouts of the scheduler fire in any order.           *)
(***************************************************************************)
\* The animation frame may come this long after the previous handler (ms).
DtFrame == {0, 50}
\* The scheduler's timeout fires on time or this late (ms).
TimeoutDelays == {0, 75}
\* What the detector reads in this session: silence, D2, B2.
TickFrames == {QuietFrame, ClearFrame(38), ClearFrame(47)}

\* The objects the two callbacks can reach: the detector and the trainer
\* from the animation frame's closure, the engine from the timeout's.
Objects == [det |-> det, app |-> app, eng |-> eng]

\* The animation frame's callback at time t, on the objects s.
detectionTickTouchingBeat(s, frame, t) ==
    LET r == detectPitch(animationFrameRuns(s.det), s.app, frame, t)
    IN  [s EXCEPT !.det = r.det, !.app = r.app,
                  !.eng.currentBeat =
                      IF r.app.session.totalNotes # s.app.session.totalNotes
                      THEN 0 ELSE @]
detectionTick(s, frame, t) ==
    LET r == detectPitch(animationFrameRuns(s.det), s.app, frame, t)
    IN  [s EXCEPT !.det = r.det, !.app = r.app]

\* The timeout's callback at time t, on the objects s.
schedulerTick(s, t) == [s EXCEPT !.eng = scheduler(timeoutRuns(s.eng), t)]

\* start() has run in groove practice on the first groove of Phrygian,
\* which updateGrooveOptions selects.
TicksInit ==
    /\ now = Epoch
    /\ pendingStarts = 0
    /\ LET r == startBody([NewDetector EXCEPT !.mediaStream = TRUE],
                          [NewApp("phrygian", "D", TRUE) EXCEPT
                              !.practiceType = "groove",
                              !.currentGroove = GROOVES["phrygian"][1].id,
                              !.tempo = 120],
                          NewEngine, QuietFrame, Epoch)
       IN  det = r.det /\ app = r.app /\ eng = r.eng

\* dt ms later the animation frame fires, before the scheduler's timeout is
\* overdue by more than the largest delay.
FrameFires(frame, dt) ==
    /\ det.pendingFrames > 0
    /\ Len(app.debugLog) < MaxLog
    /\ now + dt <= Epoch + MaxTicksTime
    /\ eng.timerID # Null => now + dt <= eng.timerID + Max(TimeoutDelays)
    /\ CleanupsDone(now + dt)
    /\ now' = now + dt
    /\ LET s == detectionTick(Objects, frame, now')
       IN  det' = s.det /\ app' = s.app /\ eng' = s.eng
    /\ UNCHANGED pendingStarts

\* The scheduler's timeout fires, `delay` ms after it is due.
TimeoutFires(delay) ==
    /\ eng.pendingTimeouts > 0
    /\ eng.timerID # Null
    /\ eng.timerID + delay >= now
    /\ eng.timerID + delay <= Epoch + MaxTicksTime
    /\ CleanupsDone(eng.timerID + delay)
    /\ now' = eng.timerID + delay
    /\ LET s == schedulerTick(Objects, now')
       IN  det' = s.det /\ app' = s.app /\ eng' = s.eng
    /\ UNCHANGED pendingStarts

NextTicks ==
    \/ \E frame \in TickFrames, dt \in DtFrame : FrameFires(frame, dt)
    \/ \E delay \in TimeoutDelays : TimeoutFires(delay)
    \/ NoteCleanup

SpecTicks == TicksInit /\ [][NextTicks]_vars

(***************************************************************************)
(* SpecLoops: a client calls start() and stop() of the detector and        *)
(* startGroove, startDrone and stopAll of the engine in any order, at any  *)
(* time, while the animation frames and the scheduler's timeouts fire.     *)
(***************************************************************************)
LoopGrooves == {SwungGroove}
LoopTempos == {120}
LoopDelays == {0, 75}
\* The input is silent: a tick only updates the meter.
LoopFrames == {QuietFrame}

\* init() has acquired the input stream.
LoopsInit ==
    /\ now = Epoch
    /\ app = NewApp("dorian", "D", TRUE)
    /\ det = [NewDetector EXCEPT !.mediaStream = TRUE]
    /\ pendingStarts = 0
    /\ eng = NewEngine

CallDetectorStart(frame) ==
    /\ LET r == detectorStart(det, app, frame, now)
       IN  det' = r.det /\ app' = r.app
    /\ UNCHANGED <<now, pendingStarts, eng>>

CallDetectorStop ==
    /\ det' = detectorStop(det)
    /\ UNCHANGED <<now, app, pendingStarts, eng>>

\* A requested animation frame fires.
LoopFrameFires(frame) ==
    /\ det.pendingFrames > 0
    /\ LET r == detectPitch(animationFrameRuns(det), app, frame, now)
       IN  det' = r.det /\ app' = r.app
    /\ UNCHANGED <<now, pendingStarts, eng>>

NextLoops ==
    \/ \E frame \in LoopFrames : CallDetectorStart(frame)
    \/ CallDetectorStop
    \/ \E frame \in LoopFrames : LoopFrameFires(frame)
    \/ \E dt \in DtAudio : PassAudio(dt)
    \/ \E rootPitch \in AudioRoots, includeFifth \in BOOLEAN :
          CallStartDrone(rootPitch, includeFifth)
    \/ \E rootPitch \in AudioRoots, grooveData \in LoopGrooves, tempo \in LoopTempos :
          CallStartGroove(rootPitch, grooveData, tempo)
    \/ CallStopAll
    \/ \E delay \in LoopDelays : SchedulerTick(delay)
    \/ NoteCleanup

SpecLoops == LoopsInit /\ [][NextLoops]_vars

(***************************************************************************)
(* SpecStarts: Start is clicked again while an earlier start() is          *)
(* suspended in init() (the button is disabled only when a start() has     *)
(* run to its end).                                                        *)
(***************************************************************************)
StartFrames == {QuietFrame, ClearFrame(38), ClearFrame(45)}

\* A click on Start while a start() awaits init(): this call finds no
\* stream either and suspends in its own init().
StartClickDuringInit ==
    /\ ~app.startDisabled
    /\ ~det.mediaStream
    /\ pendingStarts >= MaxPendingStarts
    /\ pendingStarts < MaxStartsInFlight
    /\ pendingStarts' = pendingStarts + 1
    /\ UNCHANGED <<now, det, app, eng>>

\* getUserMedia settles for the start() that has waited longest, and that
\* start() goes on from its await.
GetUserMediaSettles(ok, frame) ==
    /\ pendingStarts > 0
    /\ pendingStarts' = pendingStarts - 1
    /\ IF ok
       THEN LET r == startBody(streamAcquired(det), app, eng, frame, now)
            IN  det' = r.det /\ app' = r.app /\ eng' = r.eng
       ELSE /\ app' = showError(app, "Failed to access line input")
            /\ UNCHANGED <<det, eng>>
    /\ UNCHANGED now

NextStarts ==
    \/ \E dt \in DtSet : Pass(dt)
    \/ \E frame \in StartFrames : StartClick(frame)
    \/ StartClickDuringInit
    \/ \E ok \in BOOLEAN, frame \in StartFrames : GetUserMediaSettles(ok, frame)
    \/ StopClick
    \/ \E frame \in StartFrames : DetectTick(frame)

SpecStarts == Init /\ [][NextStarts]_vars

(***************************************************************************)
(* The note gate.                                                          *)
(***************************************************************************)
\* A step in which onPitchDetected ran within the session: the diagnostic
\* log has grown by the detection's entry.
Delivered == Len(app'.debugLog) = Len(app.debugLog) + 1

\* The detection a Delivered step has handled.
DeliveredMidi == app'.debugLog[Len(app'.debugLog)].midi

\* The two conditions of the gate, read from the state before the step.
GateElapsed == app.lastNoteTime = Null \/ now - app.lastNoteTime >= GateMs
PitchClassNew(m) ==
    app.lastCountedMIDI = Null \/ (m % 12) # (app.lastCountedMIDI % 12)

\* The step has counted detection m: trackNote ran and the gate moved.
Counts(m) ==
    /\ app'.session.totalNotes = app.session.totalNotes + 1
    /\ app'.lastCountedMIDI = m
    /\ app'.lastNoteTime = now

CountedEntries == SelectSeq(app.debugLog, LAMBDA e : e.counted)

C3_GateIsConfiguredTimeGate ==
    [][Delivered /\ PitchClassNew(DeliveredMidi) /\ app.lastNoteTime # Null =>
         (Counts(DeliveredMidi) <=>
             now - app.lastNoteTime >= CONFIG.noteCounting.timeGateMs)]_vars

\* C4: a counted detection moves both gate fields to its own values; a
\* detection that is not counted leaves both gate fields and the whole
\* session record unchanged.
C4_GateFrame ==
    [][Delivered =>
         IF app'.debugLog[Len(app'.debugLog)].counted
         THEN /\ app'.lastCountedMIDI = DeliveredMidi
              /\ app'.lastNoteTime = now
         ELSE /\ app'.lastCountedMIDI = app.lastCountedMIDI
              /\ app'.lastNoteTime = app.lastNoteTime
              /\ app'.session = app.session]_vars

\* A session with a detection that was not counted after one that was, the
\* gate still holding the counted one.
C4_Witness ==
    /\ Len(app.debugLog) >= 2
    /\ app.debugLog[1].counted
    /\ ~app.debugLog[2].counted
    /\ app.lastCountedMIDI = app.debugLog[1].midi
    /\ app.lastCountedMIDI # app.debugLog[2].midi
    /\ app.lastNoteTime < app.lastDetectionTime

(***************************************************************************)
(* The detection cooldown.                                                 *)
(***************************************************************************)
\* C5: while a tick is pending, a qualifying frame is passed to the pitch
\* callback if at least detectionCooldown ms have elapsed since the last
\* detection that was passed, and is discarded (only the input meter shows its level)
\* if less has elapsed, whatever the gate's state.
C5_CooldownAtLeast ==
    \A frame \in Frames :
        det.rafID /\ Qualifies(frame) =>
            LET r == detectPitch(det, app, frame, now)
                elapsed == now - det.lastDetectionTime
            IN  IF elapsed >= detectionCooldown
                THEN /\ r.det.lastDetectionTime = now
                     /\ Len(r.app.debugLog) = Len(app.debugLog) + 1
                ELSE /\ r.det.lastDetectionTime = det.lastDetectionTime
                     /\ r.app = onLevelUpdate(app, frame.level)

(***************************************************************************)
(* The session statistics.                                                 *)
(***************************************************************************)
RECURSIVE SumUpTo(_, _)
SumUpTo(dist, k) == IF k < 0 THEN 0 ELSE dist[k] + SumUpTo(dist, k - 1)

\* C6: in every reachable state the 12 counters of toneDistribution add up
\* to totalNotes.
C6_DistributionSumsToTotal ==
    SumUpTo(app.session.toneDistribution, 11) = app.session.totalNotes

\* A session started after time has passed that has counted two notes, one
\* of them below the root, and shows its running statistics.
C6_Witness ==
    /\ app.isPlaying
    /\ app.statsPanel.kind = "stats"
    /\ app.session.totalNotes = 2
    /\ app.session.startTime > Epoch
    /\ \E i \in DOMAIN app.debugLog :
          app.debugLog[i].counted /\ app.debugLog[i].midi < app.currentRootMIDI

\* The claim's interval of note m from the root: ((m - root) mod 12 + 12)
\* mod 12, with the mathematical mod.
IntervalOf(m) == (((m - app.currentRootMIDI) % 12) + 12) % 12

\* The positions of the session log's counted entries at interval k.
CountedAt(k) ==
    {i \in DOMAIN app.debugLog :
        app.debugLog[i].counted /\ IntervalOf(app.debugLog[i].midi) = k}

\* toneDistribution[k] is the number of counted notes at interval k.
C7_Tally ==
    /\ \A k \in 0..11 :
          app.session.toneDistribution[k] = Cardinality(CountedAt(k))
    /\ app.session.totalNotes = Len(CountedEntries)

\* A counted note adds one to the counter of its interval and to totalNotes
\* and leaves the other 11 counters.
C7_Step ==
    Delivered /\ app'.debugLog[Len(app'.debugLog)].counted =>
        /\ IntervalOf(DeliveredMidi) \in 0..11
        /\ app'.session.toneDistribution =
              [app.session.toneDistribution EXCEPT ![IntervalOf(DeliveredMidi)] = @ + 1]
        /\ app'.session.totalNotes = app.session.totalNotes + 1

\* C7: every counted note increments exactly the toneDistribution counter at
\* ((midiNote - rootMidi) mod 12 + 12) mod 12, also below the root, and
\* totalNotes, by one each, so that toneDistribution[k] is the number of
\* counted notes at interval k.
C7_TrackNoteHistogram == []C7_Tally /\ [][C7_Step]_vars

\* The intervals 0, 2, 9, 10, 9 from the root D, counted in a Dorian session.
C7_Witness ==
    /\ app.currentRootMIDI = 50
    /\ Len(app.debugLog) = 5
    /\ \A i \in 1..5 :
          /\ app.debugLog[i].counted
          /\ app.debugLog[i].midi = <<50, 52, 59, 60, 59>>[i]
    /\ app.session.totalNotes = 5
    /\ app.session.toneDistribution =
          [k \in 0..11 |-> IF k \in {0, 2, 10} THEN 1 ELSE IF k = 9 THEN 2 ELSE 0]

\* The semitone offsets the mode tags characteristic, and those it lists as
\* avoid notes.
CharacteristicSemitones(mode) ==
    {mode.intervals[k].semitones : k \in
        {j \in DOMAIN mode.intervals : mode.intervals[j].color = "characteristic"}}
AvoidSemitones(mode) ==
    {mode.avoidNotes[k].semitones : k \in DOMAIN mode.avoidNotes}

\* C8: characteristicCount is the number of counted notes whose offset the
\* active mode tags characteristic, avoidCount the number of those whose
\* offset is in the mode's avoidNotes.
C8_CharacteristicAndAvoidCounts ==
    LET mode == MODAL_DATA.modes[app.currentMode]
        hits(S) == UNION {CountedAt(k) : k \in S}
    IN  /\ app.session.characteristicToneCount =
              Cardinality(hits(CharacteristicSemitones(mode)))
        /\ app.session.avoidToneCount =
              Cardinality(hits(AvoidSemitones(mode)))

\* Dorian on D: the counted offsets 0, 2, 9, 10, 9 give three characteristic
\* notes and no avoid note.
C8_Witness ==
    /\ app.currentMode = "dorian"
    /\ app.currentRootMIDI = 50
    /\ Len(CountedEntries) = 5
    /\ \A i \in 1..5 :
          IntervalOf(CountedEntries[i].midi) = <<0, 2, 9, 10, 9>>[i]
    /\ app.session.characteristicToneCount = 3
    /\ app.session.avoidToneCount = 0

\* p, in tenths of a percent, is count/total as a percentage to one decimal.
IsPercentOf(p, count, total) ==
    LET d == p * total - 1000 * count
    IN  2 * (IF d < 0 THEN -d ELSE d) <= total

\* C9: the running display shows characteristicCount/totalNotes,
\* avoidCount/totalNotes and (toneDistribution[0] + toneDistribution[7]) /
\* totalNotes, the summary the first two, each as a percentage to one
\* decimal.
C9_Percentages ==
    LET s == app.session
        panel == app.statsPanel
    IN  /\ panel.kind \in {"stats", "summary"} =>
              /\ panel.totalNotes = s.totalNotes
              /\ IsPercentOf(panel.characteristicPct, s.characteristicToneCount,
                             s.totalNotes)
              /\ IsPercentOf(panel.avoidPct, s.avoidToneCount, s.totalNotes)
        /\ panel.kind = "stats" =>
              IsPercentOf(panel.stablePct,
                          s.toneDistribution[0] + s.toneDistribution[7],
                          s.totalNotes)

\* Ten counted notes, three of them characteristic and one avoid: the
\* running display shows 30.0% and 10.0%.
C9_Witness ==
    /\ app.session.totalNotes = 10
    /\ app.session.characteristicToneCount = 3
    /\ app.session.avoidToneCount = 1
    /\ app.statsPanel.kind = "stats"
    /\ app.statsPanel.characteristicPct = 300
    /\ app.statsPanel.avoidPct = 100

\* What the panel shows is either no percentage at all or percentages of a
\* positive number of notes, none of them NaN.
PanelShowsNoData == app.statsPanel.kind \in {"initial", "empty", "nonotes"}
PanelPercentages ==
    IF app.statsPanel.kind = "stats"
    THEN {app.statsPanel.characteristicPct, app.statsPanel.stablePct,
          app.statsPanel.avoidPct}
    ELSE IF app.statsPanel.kind = "summary"
    THEN {app.statsPanel.characteristicPct, app.statsPanel.avoidPct}
    ELSE {}

\* C10: while totalNotes is 0 the panel shows no percentage (it is empty
\* during the session and says that no notes were detected after the stop),
\* and no percentage ever shown is the NaN of a division by zero.
C10_NoDataWhenNoNotes ==
    /\ app.session.totalNotes = 0 => PanelShowsNoData
    /\ app.session.totalNotes = 0 /\ app.stopDisabled /\ ~app.startDisabled
          => app.statsPanel \in {PanelNoNotes, PanelInitial}
    /\ \A p \in PanelPercentages : p # NaN /\ p >= 0 /\ p <= 1000

\* A session stopped before any note was counted: the summary reports that
\* there is no data.
C10_Witness ==
    /\ ~app.isPlaying
    /\ app.session.startTime # Null
    /\ app.session.totalNotes = 0
    /\ app.statsPanel = PanelNoNotes

(***************************************************************************)
(* The groove sequencer.                                                   *)
(***************************************************************************)
\* The summed durations (half beats) of the first i of the chords.
RECURSIVE CumulativeDuration(_, _)
CumulativeDuration(chords, i) ==
    IF i = 0 THEN 0 ELSE chords[i].duration + CumulativeDuration(chords, i - 1)

\* The claim's chordForBeat: the first segment (from 0) whose cumulative
\* duration exceeds the beat, segment 0 when there is none.
FirstExceeding(beatIndex) ==
    LET hits == {i \in DOMAIN eng.grooveData.chords :
                    CumulativeDuration(eng.grooveData.chords, i) > 2 * beatIndex}
    IN  IF hits = {} THEN 0
        ELSE (CHOOSE i \in hits : \A j \in hits : i <= j) - 1

\* The beat a tracked note of SpecChord was scheduled for, and the chord
\* (from 0) its voice belongs to.
ProbedBeat(note) == note.startTime \div secondsPerBeat(eng)
ProbedChord(note) == (note.frequency - midiToFreq(50)) \div 100

\* C11: for every beat >= 0 getChordForBeat selects the first chord whose
\* cumulative duration exceeds the beat, and chord 0 when the beat is at or
\* beyond the total cycle length.
C11_ChordForBeat ==
    \A k \in DOMAIN eng.scheduledNotes :
        LET note == eng.scheduledNotes[k]
        IN  /\ ProbedChord(note) = FirstExceeding(ProbedBeat(note))
            /\ 2 * ProbedBeat(note) >=
                  CumulativeDuration(eng.grooveData.chords, Len(eng.grooveData.chords))
                   => ProbedChord(note) = 0

\* Durations [2,2]: the beats 0, 1, 2, 3, 4 have got the chords 0, 0, 1, 1, 0.
C11_Witness ==
    /\ Len(eng.grooveData.chords) = 2
    /\ \A i \in 1..2 : eng.grooveData.chords[i].duration = 4
    /\ Len(eng.scheduledNotes) = 5
    /\ \A k \in 1..5 :
          /\ ProbedBeat(eng.scheduledNotes[k]) = k - 1
          /\ ProbedChord(eng.scheduledNotes[k]) = <<0, 0, 1, 1, 0>>[k]

\* A step in which the scheduler's timeout has fired, the number of beats
\* its loop has handed to scheduleNote, and whether it has played a chord.
TickStep == \E delay \in TickDelays : SchedulerTick(delay)
BeatsScheduled == (eng'.nextNoteTime - eng.nextNoteTime) \div secondsPerBeat(eng)
ChordPlayed == Len(eng'.scheduledNotes) > Len(eng.scheduledNotes)

\* The pattern slot scheduleNote consults for the beat the engine e
\* schedules next.
SlotOf(e) == e.currentBeat % Len(e.grooveData.pattern)

\* C12: the slots consulted for successive beats cycle through the whole
\* pattern, whatever the chord cycle length: the beat after the one that
\* consulted slot k consults slot (k + 1) mod pattern.length, and a beat
\* sounds exactly when its slot holds 1.
C12_PatternCyclesWhole ==
    [][TickStep /\ BeatsScheduled = 1 =>
         /\ SlotOf(eng') = (SlotOf(eng) + 1) % Len(eng.grooveData.pattern)
         /\ ChordPlayed <=> eng.grooveData.pattern[SlotOf(eng) + 1] = 1]_vars

(***************************************************************************)
(* The audio engine's modes.                                               *)
(***************************************************************************)
Idle(e) == ~e.isPlaying /\ e.oscillators = << >> /\ e.timerID = Null
DronePlaying(e) == e.isPlaying /\ e.oscillators # << >> /\ e.timerID = Null
GroovePlaying(e) == e.isPlaying /\ e.oscillators = << >> /\ e.timerID # Null

\* The step is a call of the named method.
StartDroneStep ==
    \E rootPitch \in AudioRoots, includeFifth \in BOOLEAN :
        CallStartDrone(rootPitch, includeFifth)
StartGrooveStep ==
    \E rootPitch \in AudioRoots, grooveData \in AudioGrooves, tempo \in TempoSet :
        CallStartGroove(rootPitch, grooveData, tempo)

\* The step has scheduled no beat.
NoBeatScheduled ==
    /\ eng'.nextNoteTime = eng.nextNoteTime
    /\ eng'.currentBeat = eng.currentBeat
    /\ Len(eng'.scheduledNotes) <= Len(eng.scheduledNotes)

\* The engine is in one of its three modes, and each call leaves it in the
\* mode it names; while no groove plays no beat is scheduled.
C13_Modes == Idle(eng) \/ DronePlaying(eng) \/ GroovePlaying(eng)
C13_Step ==
    /\ StartGrooveStep => GroovePlaying(eng')
    /\ StartDroneStep => DronePlaying(eng')
    /\ CallStopAll => Idle(eng')
    /\ ~GroovePlaying(eng) /\ ~GroovePlaying(eng') => NoBeatScheduled

\* C13: the engine is only ever Idle, DronePlaying or GroovePlaying; after
\* startGroove no drone oscillator is registered, after startDrone no
\* scheduler timeout is pending and no further beat is scheduled, after
\* stopAll the engine is Idle; drone voices and a running scheduler never
\* coexist.
C13_OneModeAtATime == []C13_Modes /\ [][C13_Step]_vars

\* The drone plays, started over a groove whose first chord is still
\* tracked, and time has passed since without a beat being scheduled.
C13_Witness ==
    /\ DronePlaying(eng)
    /\ eng.scheduledNotes # << >>
    /\ eng.grooveData # NoGrooveData
    /\ eng.nextNoteTime < currentTime(now)

(***************************************************************************)
(* The lookahead scheduler.                                                *)
(***************************************************************************)
\* The horizon of a scheduler run at wall time t.
Horizon(t) == currentTime(t) + scheduleAheadTime

\* The number of beats at T, T + spb, T + 2 spb, ... that are earlier than
\* the horizon h.
BeatsBefore(T, spb, h) == IF T >= h THEN 0 ELSE (h - T + spb - 1) \div spb

\* One beat handed to scheduleNote at its nominal time, then the beat index
\* advanced by one, wrapping at the cycle length (half beats), and the
\* nominal time by 60 / tempo.
CycleLength(e) == CumulativeDuration(e.grooveData.chords, Len(e.grooveData.chords))
OneBeat(e, t) ==
    [scheduleNote(e, e.currentBeat, e.nextNoteTime, t) EXCEPT
        !.currentBeat = IF 2 * (e.currentBeat + 1) >= CycleLength(e)
                        THEN 0 ELSE e.currentBeat + 1,
        !.nextNoteTime = e.nextNoteTime + 60000 \div e.tempo]

RECURSIVE Beats(_, _, _)
Beats(e, k, t) == IF k = 0 THEN e ELSE Beats(OneBeat(e, t), k - 1, t)

\* After every run of the scheduler the next beat is not before the
\* horizon of that run (the run was lookahead ms before the timeout is due).
C14_PastHorizon ==
    GroovePlaying(eng) => eng.nextNoteTime >= Horizon(eng.timerID - lookahead)

\* A tick schedules the beats before its horizon, each once and in order,
\* and re-arms the timeout.
C14_Step ==
    TickStep =>
        LET k == BeatsBefore(eng.nextNoteTime, 60000 \div eng.tempo, Horizon(now'))
        IN  /\ eng' = [Beats(eng, k, now') EXCEPT !.timerID = now' + lookahead]
            /\ eng'.nextNoteTime = eng.nextNoteTime + k * (60000 \div eng.tempo)
            /\ eng'.nextNoteTime >= Horizon(now')
            /\ k > 0 => eng'.nextNoteTime - 60000 \div eng.tempo < Horizon(now')

\* C14: each scheduler tick hands to scheduleNote, exactly once and in beat
\* order, every beat whose nominal time is earlier than currentTime +
\* scheduleAheadTime, advancing currentBeat and nextNoteTime (by 60/tempo)
\* once per beat; when it returns, nextNoteTime >= currentTime +
\* scheduleAheadTime.
C14_TickSchedulesHorizon == []C14_PastHorizon /\ [][C14_Step]_vars

\* A late tick has scheduled two sounding beats at once, 60/tempo apart.
C14_Witness ==
    /\ GroovePlaying(eng)
    /\ eng.timerID = now + lookahead
    /\ \E i, j \in DOMAIN eng.scheduledNotes :
          /\ eng.scheduledNotes[i].cleanupAt = now + chordDuration + 100
          /\ eng.scheduledNotes[j].cleanupAt = now + chordDuration + 100
          /\ eng.scheduledNotes[j].startTime =
                eng.scheduledNotes[i].startTime + secondsPerBeat(eng)
          /\ eng.scheduledNotes[j].startTime = eng.nextNoteTime - secondsPerBeat(eng)

\* The notes a step has added to the tracked ones.
NewNotes == SubSeq(eng'.scheduledNotes, Len(eng.scheduledNotes) + 1,
                   Len(eng'.scheduledNotes))

\* The onset the claim gives beat `beat` of nominal time T at tempo `tempo`.
ClaimedOnset(e, beat, T) ==
    IF e.grooveData.swing /\ beat % 2 = 1
    THEN T + (15 * (60000 \div e.tempo)) \div 100
    ELSE T

\* C15: at a constant tempo the nominal times of successive beats differ by
\* exactly 60/tempo; a sounding beat's onset is its nominal time when the
\* groove is not swung or the beat index is even, and its nominal time +
\* 0.15 x 60/tempo when the groove is swung and the beat index is odd.
C15_BeatTimes ==
    [][TickStep =>
         LET spb == 60000 \div eng.tempo
             k == BeatsScheduled
         IN  /\ eng'.nextNoteTime = eng.nextNoteTime + k * spb
             /\ \A n \in DOMAIN NewNotes :
                   \E j \in 0..(k - 1) :
                       LET before == Beats(eng, j, now')
                       IN  /\ before.nextNoteTime = eng.nextNoteTime + j * spb
                           /\ NewNotes[n].startTime =
                                 ClaimedOnset(eng, before.currentBeat,
                                              before.nextNoteTime)
             /\ \A j \in 0..(k - 1) :
                   LET before == Beats(eng, j, now')
                       slot == before.currentBeat % Len(eng.grooveData.pattern)
                   IN  eng.grooveData.pattern[slot + 1] = 1 =>
                          \E n \in DOMAIN NewNotes :
                              NewNotes[n].startTime =
                                 ClaimedOnset(eng, before.currentBeat,
                                              before.nextNoteTime)]_vars

\* 100 BPM, swung: beat 0 sounds at its nominal time and beat 1, nominally
\* 600 ms later, 90 ms after its own.
C15_Witness ==
    /\ eng.grooveData.swing
    /\ eng.tempo = 100
    /\ eng.currentBeat = 0
    /\ \E i, j \in DOMAIN eng.scheduledNotes :
          /\ eng.scheduledNotes[j].startTime = eng.nextNoteTime - 600 + 90
          /\ eng.scheduledNotes[i].startTime = eng.nextNoteTime - 1200

\* The step is a call of setTempo.
SetTempoStep == \E newTempo \in TempoSet : CallSetTempo(newTempo)

\* C16: setTempo changes only the tempo: nextNoteTime, currentBeat and the
\* notes already scheduled stay as they are; a later tick keeps the notes
\* scheduled before it and spaces its own beats by the 60/tempo of the
\* tempo then in force.
C16_SetTempoFrame ==
    [][/\ SetTempoStep =>
             /\ eng' = [eng EXCEPT !.tempo = eng'.tempo]
             /\ eng'.nextNoteTime = eng.nextNoteTime
             /\ eng'.currentBeat = eng.currentBeat
             /\ eng'.scheduledNotes = eng.scheduledNotes
       /\ TickStep =>
             /\ SubSeq(eng'.scheduledNotes, 1, Len(eng.scheduledNotes)) =
                   eng.scheduledNotes
             /\ (eng'.nextNoteTime - eng.nextNoteTime) % (60000 \div eng.tempo) = 0
             /\ eng'.tempo = eng.tempo]_vars

\* A groove started at 100 BPM whose tempo was set to 120 before its second
\* beat: the first two beats are 600 ms apart, the third follows 500 ms
\* after the second.
C16_Witness ==
    /\ GroovePlaying(eng)
    /\ eng.tempo = 120
    /\ ~eng.grooveData.swing
    /\ \E i, j \in DOMAIN eng.scheduledNotes :
          /\ eng.scheduledNotes[i].startTime = eng.nextNoteTime - 1100
          /\ eng.scheduledNotes[j].startTime = eng.nextNoteTime - 500

\* The wall time of the scheduler run that armed the pending timeout.
LastRun(e) == e.timerID - lookahead

\* C17: when a tick comes no later than scheduleAheadTime after the run
\* before it, every note it schedules has an onset not earlier than the
\* transport's time at that moment; so has the note startGroove schedules.
C17_NoNoteInThePast ==
    [][/\ TickStep /\ now' - LastRun(eng) <= scheduleAheadTime =>
             \A n \in DOMAIN NewNotes : NewNotes[n].startTime >= currentTime(now')
       /\ StartGrooveStep =>
             \A n \in DOMAIN NewNotes : NewNotes[n].startTime >= currentTime(now')
      ]_vars

\* A tick exactly scheduleAheadTime after the run before it has scheduled
\* the second beat of a groove for this very instant.
C17_Witness ==
    /\ GroovePlaying(eng)
    /\ LastRun(eng) = now
    /\ \E i, j \in DOMAIN eng.scheduledNotes :
          /\ eng.scheduledNotes[j].cleanupAt = now + chordDuration + 100
          /\ eng.scheduledNotes[j].startTime = currentTime(now)
          /\ eng.scheduledNotes[i].startTime = currentTime(now) - secondsPerBeat(eng)

(***************************************************************************)
(* Stopping.                                                               *)
(***************************************************************************)
\* C18: once stopAll has returned no note queued for a future onset is
\* left pending (none will sound afterwards), and no timeout is left to
\* schedule another.
C18_StopClearsPending ==
    ~eng.isPlaying =>
        /\ eng.timerID = Null
        /\ \A k \in DOMAIN eng.scheduledNotes :
              eng.scheduledNotes[k].startTime <= currentTime(now)

\* While the detector is stopped no animation frame is pending.
C19_NoPendingTick == ~det.isRunning => ~det.rafID

\* Between two states in which the detector is stopped neither callback has
\* fired and no tick has run: the meter, the log, the session, the gate and
\* the detector are as they were.
C19_Step ==
    ~det.isRunning /\ ~det'.isRunning =>
        /\ app'.inputMeter = app.inputMeter
        /\ app'.debugLog = app.debugLog
        /\ app'.session = app.session
        /\ app'.lastCountedMIDI = app.lastCountedMIDI
        /\ det'.lastDetectedNote = det.lastDetectedNote
        /\ det'.lastDetectionTime = det.lastDetectionTime
        /\ ~det'.rafID

\* C19: after the detector's stop() has returned no level or pitch callback
\* fires and no detection tick runs or re-arms itself until start() is
\* called again, whenever stop() came relative to the pending tick.
C19_StopCancelsTick == []C19_NoPendingTick /\ [][C19_Step]_vars

\* A session that had detections delivered was stopped with its tick
\* pending, and time has passed since.
C19_Witness ==
    /\ ~det.isRunning
    /\ det.mediaStream
    /\ det.lastDetectedNote # Null
    /\ app.inputMeter # MeterInitial
    /\ app.session.totalNotes > 0
    /\ now > det.lastDetectionTime

\* C20: after the application's stop() the detector holds no open input
\* stream.
C20_StopReleasesStream == [][StopClick => ~det'.mediaStream]_vars

(***************************************************************************)
(* Failures.                                                               *)
(***************************************************************************)
\* The step is a scheduler tick during which a voice could not be allocated.
FailingTickStep ==
    \E delay \in TickDelays, allocations \in 0..MaxAllocations :
        SchedulerTickFailing(delay, allocations)

\* C21: when allocating a voice for a note fails during a scheduler tick,
\* only that note is dropped: the tick still schedules every beat before its
\* horizon (all the other notes are tracked, the beat index and the next
\* beat's time are where the unfailing tick leaves them) and arms the next
\* timeout.
C21_VoiceFailureDropsOneNote ==
    [][FailingTickStep =>
         LET whole == scheduler(eng, now')
         IN  /\ eng'.timerID = now' + lookahead
             /\ eng'.nextNoteTime = whole.nextNoteTime
             /\ eng'.nextNoteTime >= Horizon(now')
             /\ eng'.currentBeat = whole.currentBeat
             /\ Len(eng'.scheduledNotes) = Len(whole.scheduledNotes) - 1]_vars

\* The step is the return of a start() whose init() has failed to acquire
\* the input stream, and the step is a click on Start.
InitFailedStep == \E frame \in Frames : InitResolved(FALSE, frame)
StartClickStep == \E frame \in Frames : StartClick(frame)

\* C22: when acquiring the input stream fails, init() returns false and
\* start() reports the failure and gives up: the detector, the engine, the
\* session record and the gate are as before, so that a session that was
\* not running is not running afterwards (no tick pending, no backing audio,
\* isPlaying false); the acquisition is begun again only by a click on
\* Start.
C22_InitFailureStartsNothing ==
    [][/\ InitFailedStep =>
             /\ app'.status.error
             /\ app' = [app EXCEPT !.status = app'.status]
             /\ det' = det
             /\ eng' = eng
             /\ pendingStarts' = pendingStarts - 1
             /\ ~app.isPlaying =>
                   /\ ~app'.isPlaying
                   /\ ~det'.isRunning /\ ~det'.rafID
                   /\ ~eng'.isPlaying
       /\ pendingStarts' > pendingStarts => StartClickStep]_vars

\* After a session with counted notes the input device was changed, and
\* the next start() has failed to acquire the stream: the error is shown,
\* nothing runs, and the summary of the earlier session still stands.
C22_Witness ==
    /\ app.status = [text |-> "Failed to access line input", error |-> TRUE]
    /\ pendingStarts = 0
    /\ ~app.isPlaying /\ ~det.isRunning /\ ~det.rafID /\ ~eng.isPlaying
    /\ ~det.mediaStream
    /\ app.statsPanel.kind = "summary"
    /\ app.session.totalNotes > 0

(***************************************************************************)
(* The estimator.                                                          *)
(***************************************************************************)
\* lo <= frequency <= hi (Hz), for a frequency that is a number.
FrequencyWithin(frequency, lo, hi) ==
    \E sign \in {1, -1} :
        /\ sign * frequency.den > 0
        /\ lo * sign * frequency.den <= sign * frequency.num
        /\ sign * frequency.num <= hi * sign * frequency.den

\* The buffer of a tone of one period: one symmetric correlation peak above
\* 0.9 at an offset the search visits, so that the refined offset is the
\* peak's and the tone's frequency sampleRate / peak.
IsPureTone(signal) ==
    /\ signal.level >= NoiseFloorDb
    /\ signal.top > 90 /\ signal.floor <= 90
    /\ signal.left = signal.right /\ signal.left < signal.top
    /\ signal.peak \in SearchRange(bufferSize \div 2)

\* The tick that reads `signal` in the current state calls the pitch
\* callback: the application logs one more detection.
PitchCallbackOn(signal) ==
    Len(detectPitch(det, app, frameOf(signal), now).app.debugLog)
        = Len(app.debugLog) + 1

\* C23: whatever buffer a tick reads, a detection is passed to the pitch
\* callback only with a frequency within [minFrequency, maxFrequency] and a
\* confidence above confidenceThreshold; the estimator's result is
\* otherwise { frequency: -1, confidence: 0 } and the callback is not
\* called, in particular for a tone whose frequency sampleRate / peak is
\* outside the band.
C23_DetectionsWithinBand ==
    \A signal \in Signals :
        LET result == autoCorrelate(signal)
            within == FrequencyWithin(result.frequency, minFrequency, maxFrequency)
        IN  /\ PitchCallbackOn(signal) =>
                  within /\ result.confidence > confidenceThreshold
            /\ ~within => result = NoResult /\ ~PitchCallbackOn(signal)
            /\ IsPureTone(signal) =>
                  IF /\ sampleRate >= minFrequency * signal.peak
                     /\ sampleRate <= maxFrequency * signal.peak
                  THEN /\ result.frequency.num % sampleRate = 0
                       /\ result.frequency.den
                             = (result.frequency.num \div sampleRate) * signal.peak
                  ELSE result = NoResult /\ ~PitchCallbackOn(signal)

\* The tone of offset 111 (397.3 Hz, G4) was passed to the callback 100 ms
\* after the start; the cooldown has elapsed since, and of two pure tones
\* at the upper end of the search range the tick would now pass this one
\* and not the one of offset 110 (400.9 Hz).
C23_Witness ==
    /\ Len(app.debugLog) = 1
    /\ app.debugLog[1].midi = 67
    /\ det.lastDetectionTime = Epoch + 100
    /\ now = Epoch + 200
    /\ \E inside, outside \in Signals :
          /\ IsPureTone(inside) /\ inside.peak = 111
          /\ IsPureTone(outside) /\ outside.peak = 110
          /\ PitchCallbackOn(inside)
          /\ ~PitchCallbackOn(outside)

\* The level of the buffer is not above the detection threshold, or its
\* RMS is below the noise floor of 0.01.
TooQuiet(signal) == signal.level <= threshold \/ signal.level < NoiseFloorDb

\* The meter's width (halves of a percent) for a level, and its colour:
\* (level + 70) * 1.5 percent, kept within 0 and 100.
MeterWidth(level) ==
    IF level <= -70 THEN 0 ELSE IF 3 * (level + 70) >= 200 THEN 200
    ELSE 3 * (level + 70)

\* C24: a tick that reads a buffer whose level is not above the threshold
\* or whose RMS is below 0.01 produces no detection (nothing is passed to
\* the pitch callback, the cooldown's timestamp, the last detected note,
\* the gate and the session are as before), and the level callback has
\* shown the buffer's level on the meter; an all-zero buffer, at
\* 20 log10(1e-10) = -200 dB, leaves the meter empty and red and is never
\* detected.
C24_QuietTickDetectsNothing ==
    [][\A signal \in Signals, dt \in DtTick :
          TooQuiet(signal) /\ EstimatorTick(signal, dt) =>
             /\ app'.debugLog = app.debugLog
             /\ det'.lastDetectionTime = det.lastDetectionTime
             /\ det'.lastDetectedNote = det.lastDetectedNote
             /\ det'.rafID
             /\ app' = [app EXCEPT !.inputMeter = app'.inputMeter]
             /\ app'.inputMeter.width = MeterWidth(signal.level)
             /\ signal.level = -200 =>
                   app'.inputMeter = [width |-> 0, color |-> "red"]]_vars

\* A tone was passed to the callback 100 ms after the start; 100 ms later,
\* with the cooldown elapsed, a tick has read an all-zero buffer: the meter
\* is empty and the detector still holds the tone as its last detection.
C24_Witness ==
    /\ now = Epoch + 200
    /\ det.lastDetectionTime = Epoch + 100
    /\ det.lastDetectedNote = 38
    /\ Len(app.debugLog) = 1
    /\ app.inputMeter = [width |-> 0, color |-> "red"]
    /\ det.pendingFrames > 0

(***************************************************************************)
(* Device changes.                                                         *)
(***************************************************************************)
\* C25: a change of the input device tears the detection pipeline down and
\* sets it up again: when detection was running, it is running again
\* afterwards, on a newly constructed detector with a new stream; when it
\* was not, no stream is left open.
C25_DeviceChangeReinitializes ==
    [][DeviceChange =>
         IF det.isRunning
         THEN /\ det'.isRunning
              /\ det'.mediaStream
              /\ det'.lastDetectedNote = Null
              /\ det'.lastDetectionTime = 0
         ELSE ~det'.mediaStream /\ ~det'.isRunning]_vars

(***************************************************************************)
(* The two tick streams.                                                   *)
(***************************************************************************)
FrameStep == \E frame \in TickFrames, dt \in DtFrame : FrameFires(frame, dt)
TimeoutStep == \E delay \in TimeoutDelays : TimeoutFires(delay)

\* C26: a detection tick, counting included, leaves the whole engine as it
\* is (tempo, currentBeat, nextNoteTime and the scheduled notes among it),
\* and a scheduler tick leaves the trainer (the gate, the session record)
\* and the detector as they are.
C26_TicksShareNoState ==
    [][/\ FrameStep => eng' = eng
       /\ TimeoutStep => app' = app /\ det' = det]_vars

\* C26, the consequence: when an animation frame and a timeout are both
\* ready, either order of the two callbacks leaves the same engine, trainer
\* and detector.
C26_TicksCommute ==
    \A frame \in TickFrames :
        (det.rafID /\ eng.timerID # Null) =>
            schedulerTick(detectionTick(Objects, frame, now), now)
                = detectionTick(schedulerTick(Objects, now), frame, now)

\* C26: the two tick streams share no mutable state, and so their
\* callbacks commute.
C26_TicksIndependent == C26_TicksShareNoState /\ []C26_TicksCommute

\* Two notes have been counted while the scheduler went on to the groove's
\* third beat.
C26_Witness ==
    /\ app.session.totalNotes = 2
    /\ eng.timerID # Null
    /\ eng.currentBeat = 2
    /\ Len(eng.scheduledNotes) > 0

(***************************************************************************)
(* The session record over start and stop.                                 *)
(***************************************************************************)
\* The step is a start() running to its end: a click on Start with the
\* stream open (only such a step disables the Start button), or the
\* resumption of a start() whose init() has succeeded (a suspended start()
\* has resumed and has not shown the error).
StartCompletesStep ==
    \/ ~app.startDisabled /\ app'.startDisabled
    \/ pendingStarts' < pendingStarts /\ ~app'.status.error

\* C27: when start() has run to its end the session record is zeroed and
\* stamped with the time, whatever the detector's first tick delivered
\* during the start; while no session plays, a step that is not such a
\* start leaves every field of the session record as it is.
C27_SessionZeroedThenFrozen ==
    [][/\ StartCompletesStep =>
             /\ app'.isPlaying
             /\ app'.session = [InitialSession EXCEPT !.startTime = now]
       /\ (~app.isPlaying /\ ~StartCompletesStep) =>
             app'.session = app.session]_vars

\* A session has just started after an earlier one was stopped: the tick
\* that start() ran has delivered a detection at this instant, and nothing
\* of it or of the earlier session is in the record or the log.
C27_Witness ==
    /\ app.isPlaying
    /\ app.status.text = "Playing"
    /\ app.session = [InitialSession EXCEPT !.startTime = now]
    /\ now > Epoch
    /\ det.lastDetectionTime = now
    /\ det.lastDetectedNote # Null
    /\ app.debugLog = << >>
    /\ app.inputMeter # MeterInitial

(***************************************************************************)
(* The drone's voices.                                                     *)
(***************************************************************************)
\* The voices the engine holds (those stopAll has released fade out and are
\* stopped 0.1 s later; the engine no longer holds them).
Sustained(e) == e.oscillators

\* The engine holds a voice of this frequency.
HasVoice(e, frequency) ==
    \E k \in DOMAIN Sustained(e) : Sustained(e)[k].frequency = frequency

\* C28: the engine never holds more than three voices, and holds none while
\* a groove plays or nothing does; a call of startDrone, also over a drone
\* or a groove that is playing, leaves exactly the root, the sub-octave and,
\* exactly when includeFifth is true, the fifth.
C28_VoicesHeld ==
    /\ Len(Sustained(eng)) <= 3
    /\ ~DronePlaying(eng) => Sustained(eng) = << >>
C28_StartDroneStep ==
    \A rootPitch \in AudioRoots, includeFifth \in BOOLEAN :
        CallStartDrone(rootPitch, includeFifth) =>
            /\ DronePlaying(eng')
            /\ Len(Sustained(eng')) = IF includeFifth THEN 3 ELSE 2
            /\ HasVoice(eng', midiToFreq(rootPitch))
            /\ HasVoice(eng', HalfFreq(midiToFreq(rootPitch)))
            /\ HasVoice(eng', midiToFreq(rootPitch + 7)) <=> includeFifth
LogCapacity == MaxLog - 1

\* C29: the diagnostic log is bounded: however many detections a session
\* delivers (MaxLog here), the log never holds more than a capacity smaller
\* than that number.
C29_LogBounded == Len(app.debugLog) <= LogCapacity

\* C29, second half: the log is not consulted when a detection is counted:
\* with the log emptied the tick counts the same and leaves the same gate.
C29_LogNotConsulted ==
    \A frame \in Frames :
        LET r == detectPitch(det, app, frame, now)
            q == detectPitch(det, [app EXCEPT !.debugLog = << >>], frame, now)
        IN  /\ q.det = r.det
            /\ q.app.session = r.app.session
            /\ q.app.lastCountedMIDI = r.app.lastCountedMIDI
            /\ q.app.lastNoteTime = r.app.lastNoteTime

(***************************************************************************)
(* Configuration.                                                          *)
(***************************************************************************)
\* The file's pitchDetection section after an edit of its buffer size and
\* frequency bounds ("Modify these values to tune the app's behavior").
EditedSections ==
    {[CONFIG.pitchDetection EXCEPT !.bufferSize = size,
                                   !.minFrequency = lo,
                                   !.maxFrequency = hi] :
        size \in {256, 1000, 4096, 32768}, lo \in {38, 280, 300}, hi \in {280}}

\* The section breaks a documented rule: the buffer size is a power of two
\* from 512 to 16384, and minFrequency is below maxFrequency.
ConfigViolation(section) ==
    \/ section.bufferSize \notin {2^k : k \in 9..14}
    \/ section.minFrequency >= section.maxFrequency

\* What a load returns is a failure, not a pitchDetection section.
IsFailure(loaded) == DOMAIN loaded # DOMAIN CONFIG.pitchDetection

\* C30: whichever of the edited sections the file holds, if it breaks a
\* rule then loading it fails (the section is not handed out, neither as
\* written nor clamped) and the detector is not running.
C30_ViolationsRejected ==
    \A section \in EditedSections :
        ConfigViolation(section) =>
            /\ IsFailure(getPitchDetectionConfig(
                             [CONFIG EXCEPT !.pitchDetection = section]))
            /\ ~det.isRunning

\* C30, the detector: its own parameters, the constructor's literals, break
\* no rule, whatever the file says.
C30_DetectorParametersValid ==
    ~ConfigViolation([bufferSize |-> bufferSize,
                      minFrequency |-> minFrequency,
                      maxFrequency |-> maxFrequency])

(***************************************************************************)
(* The beat index.                                                         *)
(***************************************************************************)
\* C31: once a groove has been started, currentBeat is a whole number from
\* 0 and below the cycle length, the sum of the chord durations (compared
\* in half beats, so that a cycle of 1.5 beats admits 0 and 1).
C31_CurrentBeatInCycle ==
    eng.grooveData # NoGrooveData =>
        /\ eng.currentBeat \in Nat
        /\ 2 * eng.currentBeat < totalBeats(eng)

\* The groove of one chord of 1.5 beats has wrapped once and stands at
\* beat 1 again, its third beat just scheduled.
C31_Witness ==
    /\ GroovePlaying(eng)
    /\ totalBeats(eng) = 3
    /\ eng.currentBeat = 1
    /\ eng.nextNoteTime >= 3 * secondsPerBeat(eng)
    /\ eng.scheduledNotes # << >>

(***************************************************************************)
(* The summary's most used interval.                                       *)
(***************************************************************************)
\* C32: the interval the summary names as most used is the index of a
\* counter that no counter exceeds, and every counter at a lower index is
\* smaller: among tied maxima it is the lowest semitone.
C32_MostUsedInterval ==
    app.statsPanel.kind = "summary" =>
        LET dist == app.session.toneDistribution
            i == app.statsPanel.maxInterval
        IN  /\ i \in 0..11
            /\ \A j \in 0..11 : dist[j] <= dist[i]
            /\ \A j \in 0..(i - 1) : dist[j] < dist[i]

\* The fifth and the sixth tie for the maximum, above the root: the summary
\* names the fifth.
C32_Witness ==
    /\ app.statsPanel.kind = "summary"
    /\ app.session.toneDistribution[7] = app.session.toneDistribution[9]
    /\ app.session.toneDistribution[7] > app.session.toneDistribution[0]
    /\ app.session.toneDistribution[0] > 0
    /\ app.statsPanel.maxInterval = 7

(***************************************************************************)
(* Pitch classes.                                                          *)
(***************************************************************************)
\* ((midiNote % 12) + 12) % 12, with JavaScript's remainder.
LiftedPitchClass(midiNote) == JsRem(JsRem(midiNote, 12) + 12, 12)

\* C33: for every detection passed to the application, the pitch class the
\* gate computes (logged with the detection) and the index the note namer
\* takes the note's name from are the same number, within 0..11, and equal
\* to ((midiNote % 12) + 12) % 12.
C33_PitchClassInRange ==
    \A k \in DOMAIN app.debugLog :
        LET entry == app.debugLog[k]
        IN  /\ entry.pitchClass \in 0..11
            /\ entry.pitchClass = LiftedPitchClass(entry.midi)
            /\ noteIndex(entry.midi) = entry.pitchClass

\* The lowest tone of the band (30.02 Hz, B0) and the highest (397.3 Hz,
\* G4) have both been detected: pitch classes 11 and 7.
C33_Witness ==
    \E j, k \in DOMAIN app.debugLog :
        /\ app.debugLog[j].midi = 23 /\ app.debugLog[j].pitchClass = 11
        /\ app.debugLog[k].midi = 67 /\ app.debugLog[k].pitchClass = 7

(***************************************************************************)
(* The two tick loops.                                                     *)
(***************************************************************************)
\* C34: whatever the order of the start and stop calls, the browser holds at
\* most one scheduler timeout and at most one animation-frame request, and
\* each is the one whose handle the object keeps (timerID, rafID): a second
\* loop would be a callback pending beside the one the handle names.
C34_OneLoopEach ==
    /\ eng.pendingTimeouts = IF eng.timerID # Null THEN 1 ELSE 0
    /\ det.pendingFrames = IF det.rafID THEN 1 ELSE 0
    /\ det.rafID <=> det.isRunning
    /\ eng.timerID # Null => eng.isPlaying

\* Both loops run, each started over: the meter has been drawn by a tick,
\* and two tracked notes sound within 50 ms of each other, closer than two
\* beats of one run of the groove ever are.
C34_Witness ==
    /\ det.isRunning /\ det.pendingFrames = 1
    /\ eng.isPlaying /\ eng.pendingTimeouts = 1
    /\ app.inputMeter # MeterInitial
    /\ \E i, j \in DOMAIN eng.scheduledNotes :
          /\ eng.scheduledNotes[i].frequency = eng.scheduledNotes[j].frequency
          /\ eng.scheduledNotes[j].startTime > eng.scheduledNotes[i].startTime
          /\ eng.scheduledNotes[j].startTime < eng.scheduledNotes[i].startTime + 50

(***************************************************************************)
(* Start clicked twice.                                                    *)
(***************************************************************************)
\* A start() that was suspended in init() runs to its end.
StartResumesStep == pendingStarts' < pendingStarts /\ ~app'.status.error

\* C35, first half: at most one input stream is acquired and open: none has
\* been put over another in this.mediaStream.
C35_OneStreamOpen == det.openStreams <= 1

\* C35, second half: a start() that resumes while a session is running
\* starts no second one: it leaves the running session as it is.
C35_OneSessionStarted ==
    [][StartResumesStep /\ app.isPlaying =>
          /\ app'.session = app.session
          /\ app'.debugLog = app.debugLog]_vars

\* C35: when start() is invoked again before the init() of an earlier
\* start() has completed, at most one input stream is acquired and held
\* open, and exactly one session ends up started.
C35_OneStreamOneSession == []C35_OneStreamOpen /\ C35_OneSessionStarted


(***************************************************************************)
(* The order of the onsets.                                                *)
(***************************************************************************)
\* The nominal time and index of the first beat a step schedules: those
\* startGroove sets, or those the last tick has left.
FirstBeatOf(step) ==
    IF step = "start"
    THEN [eng' EXCEPT !.currentBeat = 0,
                      !.nextNoteTime = currentTime(now),
                      !.scheduledNotes = eng.scheduledNotes]
    ELSE eng

\* The onsets a step hands to the audio clock, and the beats among those it
\* schedules that sound.
NewOnsets == {NewNotes[n].startTime : n \in DOMAIN NewNotes}
SoundingBeats(step) ==
    LET first == FirstBeatOf(step)
        k == (eng'.nextNoteTime - first.nextNoteTime) \div secondsPerBeat(first)
    IN  {j \in 0..(k - 1) :
            LET before == Beats(first, j, now')
                slot == before.currentBeat % Len(first.grooveData.pattern)
            IN  first.grooveData.pattern[slot + 1] = 1}

\* The onsets of one run of the scheduler: in scheduling order they do not
\* go back, the sounding beats have as many different onsets as there are
\* of them, none is before the nominal time of the first beat of the run
\* and all are before the nominal time of the next beat to schedule.
OnsetsInOrder(step) ==
    /\ \A m, n \in DOMAIN NewNotes :
          m < n => NewNotes[m].startTime <= NewNotes[n].startTime
    /\ Cardinality(NewOnsets) = Cardinality(SoundingBeats(step))
    /\ \A onset \in NewOnsets :
          /\ onset >= FirstBeatOf(step).nextNoteTime
          /\ onset < eng'.nextNoteTime

\* C36: in groove mode the onsets handed to the audio clock increase
\* strictly from one sounding beat to the next, in scheduling order, swung
\* or not and whenever the tempo is set: within a run of the scheduler, and
\* from run to run because every onset lies between the nominal time of
\* its run's first beat and that of the next beat, which only startGroove
\* ever sets back.
C36_OnsetsIncrease ==
    [][/\ TickStep => OnsetsInOrder("tick")
       /\ StartGrooveStep => OnsetsInOrder("start")
       /\ eng'.nextNoteTime < eng.nextNoteTime => StartGrooveStep]_vars

\* A swung groove whose tempo was set from 120 to 100 after its first
\* beat: beat 1, nominally 500 ms after beat 0, sounds 90 ms later than
\* that, and beat 2 is due 600 ms after beat 1's nominal time.
C36_Witness ==
    /\ GroovePlaying(eng) /\ eng.grooveData.swing /\ eng.tempo = 100
    /\ \E i, j \in DOMAIN eng.scheduledNotes :
          /\ eng.scheduledNotes[i].frequency = eng.scheduledNotes[j].frequency
          /\ eng.scheduledNotes[j].startTime =
                 eng.scheduledNotes[i].startTime + 590
          /\ eng.nextNoteTime = eng.scheduledNotes[i].startTime + 1100


(***************************************************************************)
(* The diagnostic log and the count.                                       *)
(***************************************************************************)
\* C37: the entries of the log marked counted are as many as totalNotes,
\* and whatever detection the gate is handed next, it appends exactly one
\* entry, for that detection, after the entries there are, and adds one to
\* totalNotes exactly when the entry is marked counted.
C37_LogMatchesTotal ==
    /\ Len(CountedEntries) = app.session.totalNotes
    /\ \A m \in MidiSet :
          LET after == onPitchDetected(app, m, now)
              n == Len(app.debugLog)
          IN  /\ Len(after.debugLog) = n + 1
              /\ SubSeq(after.debugLog, 1, n) = app.debugLog
              /\ after.debugLog[n + 1].midi = m
              /\ after.session.totalNotes =
                     app.session.totalNotes
                         + (IF after.debugLog[n + 1].counted THEN 1 ELSE 0)

\* A running session with three detections logged, the second of them not
\* counted, and two notes in the total.
C37_Witness ==
    /\ app.isPlaying
    /\ Len(app.debugLog) = 3
    /\ app.debugLog[1].counted /\ ~app.debugLog[2].counted /\ app.debugLog[3].counted
    /\ app.session.totalNotes = 2


(***************************************************************************)
(* The first detection of a session.                                       *)
(***************************************************************************)
\* The gate holds no counted note.
GateCleared(a) == a.lastCountedMIDI = Null /\ a.lastNoteTime = Null

\* A click on Stop has been handled.
SessionStopsStep == app.isPlaying /\ ~app'.isPlaying

\* In a started session that has logged nothing yet the gate is cleared and
\* whatever detection comes first is counted; the first entry of a
\* session's log is marked counted.
C38_FirstCounted ==
    /\ (app.isPlaying /\ app.debugLog = << >>) =>
          /\ GateCleared(app)
          /\ \A m \in MidiSet :
                LET after == onPitchDetected(app, m, now)
                IN  /\ after.debugLog[1].counted
                    /\ after.session.totalNotes = 1
                    /\ after.lastCountedMIDI = m /\ after.lastNoteTime = now
    /\ (app.isPlaying /\ app.debugLog # << >>) => app.debugLog[1].counted

\* C38: the first detection delivered to the gate after start() has
\* completed is counted, whatever was counted before and however recently;
\* start() and stop() both leave the gate without a last counted note and
\* time.
C38_FirstDetectionCounted ==
    /\ []C38_FirstCounted
    /\ [][/\ StartCompletesStep => GateCleared(app') /\ app'.debugLog = << >>
          /\ SessionStopsStep => GateCleared(app')]_vars

\* A session has just been started, less than the gate time after the
\* detector passed on its last detection, which was before this start: in
\* the session before.
C38_Witness ==
    /\ app.isPlaying /\ app.debugLog = << >>
    /\ det.lastDetectedNote # Null
    /\ det.lastDetectionTime < app.session.startTime
    /\ now - det.lastDetectionTime < GateMs
    /\ det.pendingFrames = 1


(***************************************************************************)
(* Characteristic and avoid tones.                                         *)
(***************************************************************************)
\* C39: no table tags a semitone offset characteristic and lists it in
\* avoidNotes as well, so that whatever note is counted next adds to at
\* most one of characteristicToneCount and avoidToneCount, and the two
\* together never exceed totalNotes.
C39_CharacteristicOrAvoid ==
    /\ \A modeName \in ModeNames :
          CharacteristicSemitones(getMode(modeName))
              \cap AvoidSemitones(getMode(modeName)) = {}
    /\ \A m \in TrackMidi :
          LET before == app.session
              after == trackNote(app, m).session
          IN  /\ after.totalNotes = before.totalNotes + 1
              /\ (after.characteristicToneCount - before.characteristicToneCount)
                    + (after.avoidToneCount - before.avoidToneCount) \in {0, 1}
    /\ app.session.characteristicToneCount + app.session.avoidToneCount
          <= app.session.totalNotes

\* Dorian over D: a characteristic tone (B or C), the avoid tone (C#) and a
\* tone that is neither have been counted.
C39_Witness ==
    /\ app.currentMode = "dorian" /\ app.currentRootMIDI = 50
    /\ app.session.totalNotes = 3
    /\ app.session.characteristicToneCount = 1
    /\ app.session.avoidToneCount = 1


====
